---- MODULE Spec2Model ----
(***************************************************************************)
(* A model of sulfur: a WebDriver session client (client.rs), the          *)
(* chromedriver / geckodriver process supervisors (chrome.rs, gecko.rs),   *)
(* the polling helper (junk_drawer.rs) and the DriverHolder that binds a   *)
(* session to its driver process (driver.rs).                              *)
(*                                                                         *)
(* Spec       the life of a Client and a chrome Driver after a successful  *)
(*            start: session operations, explicit closes, drops, and the   *)
(*            DriverHolder that owns both.                                  *)
(* StartSpec  Driver start: spawn, poll until healthy, open the session.   *)
(* PortSpec   unused_port_no called from several threads at once.          *)
(* ExecSpec   Client::new and the Session operations over execute: the     *)
(*            JSON of the responses and serde's reading of it.             *)
(* UrlSpec    url_of_segments: the URL a list of path segments comes to.   *)
(* BrowseSpec navigation, windows and frames against a browser.            *)
(* ShotSpec   screenshot and element_screenshot: base64 text to bytes.      *)
(***************************************************************************)
EXTENDS Integers, Sequences, FiniteSets, TLC

VARIABLES
    owner,            \* "holder": a DriverHolder owns client and driver;
                      \* "separate": the caller holds a Driver and a Client
    alive,            \* the values not yet dropped, a subset of {"client", "driver"}
    session_id,       \* Client.session_id : Option<String>
    child,            \* Driver.child: "running", "exited" (not yet waited for), "reaped"
    kill_reaped_errs, \* std: does Child::kill on a reaped child return Err?
    log,              \* what has happened so far, in order
    ret,              \* the last call made by the caller and its result
    calls,            \* number of calls the caller has made
    kind,             \* the supervisor that is starting: "chrome" or "gecko"
    spc,              \* where Driver start is
    elapsed,          \* milliseconds since the polling began
    pause_time,       \* the next pause of the polling loop, in milliseconds
    last,             \* the last thing Driver start did
    ever_healthy,     \* has a health request been answered with a success?
    health,           \* the answer to the last health request and what is_healthy made of it
    PORT,             \* junk_drawer.rs: the process-wide counter
    port_env,         \* "all_busy": every candidate port is in use; "mixed"
    busy_left,        \* how many more binds may find the address in use
    ppc,              \* per thread: where its call of unused_port_no is
    poff,             \* per thread: the candidate port of the current probe
    pres,             \* per thread: what its call returned
    pprobes,          \* per thread: the passes through the loop of its call
    remote,           \* the driver as the client sees it over HTTP
    http,             \* the HTTP response to the last request of the client
    out,              \* the last operation of the client and what it returned
    url_base,         \* Client.url: the components of its path, a directory
    url_elts,         \* the segments the last call of url_of_segments was given
    url_res           \* the URL it returned

lifeVars == <<owner, alive, session_id, calls>>
startVars == <<kind, spc, elapsed, pause_time, last, ever_healthy, health>>
portVars == <<PORT, port_env, busy_left, ppc, poff, pres, pprobes>>
execVars == <<remote, http, out>>
urlVars == <<url_base, url_elts, url_res>>
moreVars == <<urlVars>>
otherVars == <<portVars, execVars, moreVars>>
vars == <<owner, alive, session_id, child, kill_reaped_errs, log, ret, calls,
          kind, spc, elapsed, pause_time, last, ever_healthy, health, portVars, execVars, moreVars>>

----------------------------------------------------------------------------
\* Bounds of the model.

\* Threads that call unused_port_no concurrently.
NThreads == 3
Threads == 1..NThreads

\* No call of unused_port_no is being made.
PortIdle ==
    /\ PORT = 0
    /\ port_env = "mixed"
    /\ busy_left = 0
    /\ ppc = [t \in Threads |-> "done"]
    /\ poff = [t \in Threads |-> 0]
    /\ pres = [t \in Threads |-> [kind |-> "none"]]
    /\ pprobes = [t \in Threads |-> 0]

\* The caller makes at most this many calls before the values are torn down.
\* url_of_segments has not been called.
UrlIdle ==
    /\ url_base = <<>>
    /\ url_elts = <<>>
    /\ url_res = [state |-> "none"]

\* No request has been made.
ExecIdle ==
    /\ remote = [state |-> "none"]
    /\ http = [state |-> "none"]
    /\ out = [op |-> "none"]

MaxCalls == 3

\* Session identifiers the driver may have assigned.
SessionIds == {"s1", "s2"}

\* Option::None of Client.session_id.
NoSession == "None"

\* The public Session operations other than close.
OpNames ==
    { "timeouts", "set_timeouts", "visit", "back", "forward", "refresh",
      "title", "current_url", "window", "close_window", "switch_to_window",
      "windows", "switch_to_frame", "switch_to_parent_frame",
      "find_element", "find_elements", "find_element_from",
      "find_elements_from", "text", "attribute", "name", "click",
      "send_keys", "clear", "page_source", "screenshot",
      "element_screenshot" }

----------------------------------------------------------------------------
\* Events of the log.

Call(f) == <<f, "call">>
Ret(f, r) == <<f, r>>
Delete(sid) == <<"DELETE", sid>>
Request(sid) == <<"request", sid>>
KillEv == <<"kill", "SIGKILL">>
WaitEv == <<"wait", "reap">>

\* What execute() can return, by the state of the driver process: a running
\* driver answers with success, with a JSON error (WdError) or with something
\* else; a process that has exited answers nothing (send() fails).
Responses(ch) == IF ch = "running" THEN {"Ok", "WdError", "Other"} ELSE {"Other"}

----------------------------------------------------------------------------
\* client.rs

\* Client::session, without the check (a mutant).
session_unchecked(sid) == [ok |-> TRUE, id |-> sid]

\* Client::session: the id, or the local error "No current session".
session(sid) ==
    IF sid = NoSession THEN [ok |-> FALSE, id |-> sid] ELSE [ok |-> TRUE, id |-> sid]

\* A Session operation that sends the request again when it failed (a
\* mutant).
SessionOpRun_Retry(sid, resp) ==
    LET s == session(sid)
    IN  IF ~s.ok
        THEN [ev |-> <<>>, res |-> "NoCurrentSession"]
        ELSE IF resp = "Ok"
             THEN [ev |-> <<Request(s.id)>>, res |-> resp]
             ELSE [ev |-> <<Request(s.id), Request(s.id)>>, res |-> resp]

\* Any Session operation other than close: self.session()? is evaluated while
\* the path segments are built, before execute() sends the request.
SessionOpRun(sid, resp) ==
    LET s == session(sid)
    IN  IF ~s.ok
        THEN [ev |-> <<>>, res |-> "NoCurrentSession"]
        ELSE [ev |-> <<Request(s.id)>>, res |-> resp]

\* Client::close that opens a session again when there is none (a mutant).
ClientClose_Renews(sid, resp) ==
    IF sid # NoSession
    THEN IF resp = "Ok"
         THEN [session_id |-> NoSession, res |-> "Ok",
               ev |-> <<Call("Client::close"), Delete(sid), Ret("Client::close", "Ok")>>]
         ELSE [session_id |-> sid, res |-> "Err",
               ev |-> <<Call("Client::close"), Delete(sid), Ret("Client::close", "Err")>>]
    ELSE [session_id |-> CHOOSE id \in SessionIds : TRUE, res |-> "Ok",
          ev |-> <<Call("Client::close"), Ret("Client::close", "Ok")>>]

\* Client::close. resp is the response to the delete-session request.
ClientClose(sid, resp) ==
    IF sid # NoSession
    THEN IF resp = "Ok"
         THEN [session_id |-> NoSession, res |-> "Ok",
               ev |-> <<Call("Client::close"), Delete(sid), Ret("Client::close", "Ok")>>]
         ELSE [session_id |-> sid, res |-> "Err",
               ev |-> <<Call("Client::close"), Delete(sid), Ret("Client::close", "Err")>>]
    ELSE [session_id |-> NoSession, res |-> "Ok",
          ev |-> <<Call("Client::close"), Ret("Client::close", "Ok")>>]

\* impl Drop for Client: close, and log the error if any.
ClientDrop(sid, resp) ==
    LET c == ClientClose(sid, resp)
    IN  [session_id |-> c.session_id, ev |-> <<Call("Client::drop")>> \o c.ev]

----------------------------------------------------------------------------
\* chrome.rs

\* Child::kill. A child that was already waited for is not signalled: std
\* returns Err(InvalidInput) there in the releases the crate was written
\* against and Ok(()) in later ones.
Kill(ch, kerr) ==
    IF ch = "reaped"
    THEN [ok |-> ~kerr, child |-> ch, ev |-> <<>>]
    ELSE [ok |-> TRUE, child |-> "exited", ev |-> <<KillEv>>]

\* Child::wait: reaps the child, or returns the status it already has.
Wait(ch) ==
    [child |-> "reaped", ev |-> IF ch = "reaped" THEN <<>> ELSE <<WaitEv>>]

\* Driver::close and <Driver as driver::Driver>::close: kill()?, wait()?.
DriverClose(ch, kerr) ==
    LET k == Kill(ch, kerr)
    IN  IF ~k.ok
        THEN [child |-> k.child, res |-> "Err",
              ev |-> <<Call("Driver::close"), Ret("Driver::close", "Err")>>]
        ELSE LET w == Wait(k.child)
             IN  [child |-> w.child, res |-> "Ok",
                  ev |-> <<Call("Driver::close")>> \o k.ev \o w.ev
                         \o <<Ret("Driver::close", "Ok")>>]

\* A Driver whose drop leaves the process alone (a mutant).
DriverDrop_NoClose(ch, kerr) == [child |-> ch, ev |-> <<Call("Driver::drop")>>]

\* impl Drop for Driver: close, and log the error if any.
DriverDrop(ch, kerr) ==
    LET d == DriverClose(ch, kerr)
    IN  [child |-> d.child, ev |-> <<Call("Driver::drop")>> \o d.ev]

----------------------------------------------------------------------------
\* driver.rs

\* The end of DriverHolder::close's scope: the locals bound by the pattern
\* { mut client, mut driver } are dropped in reverse order of declaration,
\* driver first, then client. The driver's drop leaves the child reaped, so
\* the request the client's drop may send has one possible answer.
CloseScopeEnd(sid, ch, kerr, ev, res) ==
    LET dd == DriverDrop(ch, kerr)
        cd == ClientDrop(sid, CHOOSE r \in Responses(dd.child) : TRUE)
    IN  [session_id |-> cd.session_id, child |-> dd.child, res |-> res,
         ev |-> ev \o dd.ev \o cd.ev]

\* DriverHolder::close with the two closes swapped (a mutant).
HolderCloseRun_DriverFirst(sid, ch, kerr, resp) ==
    LET d == DriverClose(ch, kerr)
    IN  IF d.res = "Err"
        THEN CloseScopeEnd(sid, d.child, kerr, d.ev, "Err")
        ELSE LET c == ClientClose(sid, CHOOSE r \in Responses(d.child) : TRUE)
             IN  CloseScopeEnd(c.session_id, d.child, kerr, d.ev \o c.ev, c.res)

\* DriverHolder::close: client.close()?; driver.close()?; Ok(()).
HolderCloseRun(sid, ch, kerr, resp) ==
    LET c == ClientClose(sid, resp)
    IN  IF c.res = "Err"
        THEN CloseScopeEnd(c.session_id, ch, kerr, c.ev, "Err")
        ELSE LET d == DriverClose(ch, kerr)
             IN  CloseScopeEnd(c.session_id, d.child, kerr, c.ev \o d.ev, d.res)

\* Dropping a DriverHolder with the fields in the other order (a mutant).
HolderDropRun_DriverFirst(sid, ch, kerr, resp) ==
    LET dd == DriverDrop(ch, kerr)
        cd == ClientDrop(sid, CHOOSE r \in Responses(dd.child) : TRUE)
    IN  [session_id |-> cd.session_id, child |-> dd.child, ev |-> dd.ev \o cd.ev]

\* Dropping a DriverHolder: the fields are dropped in declaration order,
\* client first, then driver.
HolderDropRun(sid, ch, kerr, resp) ==
    LET cd == ClientDrop(sid, resp)
        dd == DriverDrop(ch, kerr)
    IN  [session_id |-> cd.session_id, child |-> dd.child, ev |-> cd.ev \o dd.ev]

----------------------------------------------------------------------------
\* The state after chrome::start (holder) or Driver::start and new_session
\* (separate) returned: the session is open and the child has been spawned.

Init ==
    /\ owner \in {"holder", "separate"}
    /\ alive = {"client", "driver"}
    /\ session_id \in SessionIds
    /\ child = "running"
    /\ kill_reaped_errs \in BOOLEAN
    /\ log = <<>>
    /\ ret = [call |-> "start", res |-> "Ok"]
    /\ calls = 0
    /\ kind = "chrome"
    /\ spc = "returned"
    /\ elapsed = 0
    /\ pause_time = 0
    /\ last = "GET"
    /\ ever_healthy = TRUE
    /\ health = [state |-> "answered", a |-> [sent |-> TRUE, status |-> 200, body |-> "ready"],
                healthy |-> TRUE]
    /\ PortIdle
    /\ ExecIdle
    /\ UrlIdle

\* The driver process exits by itself.
ProcessExits ==
    /\ child = "running"
    /\ child' = "exited"
    /\ UNCHANGED <<owner, alive, session_id, kill_reaped_errs, log, ret, calls>>
    /\ UNCHANGED <<startVars, otherVars>>

\* The caller calls a Session operation (through Deref when a holder owns it).
SessionOp ==
    /\ "client" \in alive
    /\ calls < MaxCalls
    /\ \E op \in OpNames, resp \in Responses(child) :
         LET o == SessionOpRun(session_id, resp)
         IN  /\ log' = log \o o.ev
             /\ ret' = [call |-> op, res |-> o.res]
    /\ calls' = calls + 1
    /\ UNCHANGED <<owner, alive, session_id, child, kill_reaped_errs>>
    /\ UNCHANGED <<startVars, otherVars>>

\* The caller calls Client::close (through DerefMut when a holder owns it).
UserClientClose ==
    /\ "client" \in alive
    /\ calls < MaxCalls
    /\ \E resp \in Responses(child) :
         LET c == ClientClose(session_id, resp)
         IN  /\ session_id' = c.session_id
             /\ log' = log \o c.ev
             /\ ret' = [call |-> "Client::close", res |-> c.res]
    /\ calls' = calls + 1
    /\ UNCHANGED <<owner, alive, child, kill_reaped_errs>>
    /\ UNCHANGED <<startVars, otherVars>>

\* The caller calls Driver::close on a Driver it holds itself.
UserDriverClose ==
    /\ owner = "separate"
    /\ "driver" \in alive
    /\ calls < MaxCalls
    /\ LET d == DriverClose(child, kill_reaped_errs)
       IN  /\ child' = d.child
           /\ log' = log \o d.ev
           /\ ret' = [call |-> "Driver::close", res |-> d.res]
    /\ calls' = calls + 1
    /\ UNCHANGED <<owner, alive, session_id, kill_reaped_errs>>
    /\ UNCHANGED <<startVars, otherVars>>

\* The caller drops a Client it holds itself.
UserClientDrop ==
    /\ owner = "separate"
    /\ "client" \in alive
    /\ \E resp \in Responses(child) :
         LET c == ClientDrop(session_id, resp)
         IN  /\ session_id' = c.session_id
             /\ log' = log \o c.ev
    /\ alive' = alive \ {"client"}
    /\ ret' = [call |-> "Client::drop", res |-> "Ok"]
    /\ UNCHANGED <<owner, child, kill_reaped_errs, calls>>
    /\ UNCHANGED <<startVars, otherVars>>

\* The caller drops a Driver it holds itself.
UserDriverDrop ==
    /\ owner = "separate"
    /\ "driver" \in alive
    /\ LET d == DriverDrop(child, kill_reaped_errs)
       IN  /\ child' = d.child
           /\ log' = log \o d.ev
    /\ alive' = alive \ {"driver"}
    /\ ret' = [call |-> "Driver::drop", res |-> "Ok"]
    /\ UNCHANGED <<owner, session_id, kill_reaped_errs, calls>>
    /\ UNCHANGED <<startVars, otherVars>>

\* The caller calls DriverHolder::close, which consumes the holder.
HolderClose ==
    /\ owner = "holder"
    /\ alive = {"client", "driver"}
    /\ \E resp \in Responses(child) :
         LET h == HolderCloseRun(session_id, child, kill_reaped_errs, resp)
         IN  /\ session_id' = h.session_id
             /\ child' = h.child
             /\ log' = log \o <<Call("DriverHolder::close")>> \o h.ev
             /\ ret' = [call |-> "DriverHolder::close", res |-> h.res]
    /\ alive' = {}
    /\ UNCHANGED <<owner, kill_reaped_errs, calls>>
    /\ UNCHANGED <<startVars, otherVars>>

\* The DriverHolder goes out of scope without a call of its close.
HolderDrop ==
    /\ owner = "holder"
    /\ alive = {"client", "driver"}
    /\ \E resp \in Responses(child) :
         LET h == HolderDropRun(session_id, child, kill_reaped_errs, resp)
         IN  /\ session_id' = h.session_id
             /\ child' = h.child
             /\ log' = log \o <<Call("DriverHolder::drop")>> \o h.ev
    /\ ret' = [call |-> "DriverHolder::drop", res |-> "Ok"]
    /\ alive' = {}
    /\ UNCHANGED <<owner, kill_reaped_errs, calls>>
    /\ UNCHANGED <<startVars, otherVars>>

Next ==
    \/ ProcessExits
    \/ SessionOp
    \/ UserClientClose
    \/ UserDriverClose
    \/ UserClientDrop
    \/ UserDriverDrop
    \/ HolderClose
    \/ HolderDrop

Spec == Init /\ [][Next]_vars

----------------------------------------------------------------------------
\* Reading the log.

Has(e) == \E i \in DOMAIN log : log[i] = e
Count(k) == Cardinality({i \in DOMAIN log : log[i][1] = k})

\* Where the holder's teardown begins in the log.
HolderCloseAt == CHOOSE i \in DOMAIN log : log[i] = Call("DriverHolder::close")
HolderDropAt == CHOOSE i \in DOMAIN log : log[i] = Call("DriverHolder::drop")
TeardownAt ==
    CHOOSE i \in DOMAIN log :
        log[i] \in {Call("DriverHolder::close"), Call("DriverHolder::drop")}

\* C1: in DriverHolder::close, on the normal and on the early error return,
\* every close (kill) of the driver process comes after a call of the
\* Session's close made by that DriverHolder::close.
C1_SessionCloseBeforeProcessClose ==
    ret.call = "DriverHolder::close" =>
        \A i \in DOMAIN log :
            (i > HolderCloseAt /\ log[i] \in {KillEv, Call("Driver::close")}) =>
                \E j \in DOMAIN log :
                    HolderCloseAt < j /\ j < i /\ log[j] = Call("Client::close")

\* DriverHolder::close returned early with the session's error, and the
\* process was killed on the way out.
C1_Witness ==
    /\ ret = [call |-> "DriverHolder::close", res |-> "Err"]
    /\ \E i \in DOMAIN log : i > HolderCloseAt /\ log[i] = KillEv

\* C2: when the Session's close fails inside DriverHolder::close, the holder
\* does not abort: it goes on to call the Driver's close and returns Ok.
C2_SessionCloseIsBestEffort ==
    ret.call = "DriverHolder::close" =>
        \A i \in DOMAIN log :
            (i = HolderCloseAt + 3 /\ log[i] = Ret("Client::close", "Err")) =>
                /\ log[i + 1] = Call("Driver::close")
                /\ ret.res = "Ok"

\* C3: when a DriverHolder is dropped without a close, the Client is
\* finalized before the Driver: a session that is still open gets its
\* delete-session request, and that request is sent before the process is
\* killed.
C3_DropFinalizesSessionFirst ==
    ret.call = "DriverHolder::drop" =>
        /\ \E i, j \in DOMAIN log :
              /\ HolderDropAt < i /\ i < j
              /\ log[i] = Call("Client::drop") /\ log[j] = Call("Driver::drop")
        /\ \A i, j \in DOMAIN log :
              (HolderDropAt < i /\ HolderDropAt < j
                 /\ log[i][1] = "DELETE" /\ log[j] = KillEv) => i < j
        /\ (\A i \in DOMAIN log : log[i] # Ret("Client::close", "Ok"))
              => \E i \in DOMAIN log : i > HolderDropAt /\ log[i][1] = "DELETE"

\* A holder with an open session was dropped: the request was sent and the
\* process was killed.
C3_Witness ==
    /\ ret.call = "DriverHolder::drop"
    /\ \E i, j \in DOMAIN log :
          HolderDropAt < i /\ HolderDropAt < j
          /\ log[i][1] = "DELETE" /\ log[j] = KillEv

\* C4: over the whole life of a DriverHolder whose session the caller did not
\* close by hand, exactly one delete-session request is sent and the process
\* is killed and waited for exactly once, also when a close step fails.
C4_ClosedExactlyOnce ==
    (/\ owner = "holder"
     /\ alive = {}
     /\ \A i \in DOMAIN log : i < TeardownAt => log[i][1] # "Client::close")
    => /\ Count("DELETE") = 1
       /\ Count("kill") = 1
       /\ Count("wait") = 1

\* C5: every call of Client::close after the first one returns Ok and sends
\* no request.
C5_SecondCloseIsNoOp ==
    \A i \in DOMAIN log :
        (/\ log[i] = Call("Client::close")
         /\ \E j \in 1..(i - 1) : log[j] = Call("Client::close"))
        => log[i + 1] = Ret("Client::close", "Ok")

\* C6: a Session operation other than close, called when the session id has
\* been cleared, returns the local error, sends no request and leaves the
\* Session as it was.
C6_NoSessionFailsLocally ==
    [][\A op \in OpNames :
          (calls' = calls + 1 /\ ret'.call = op /\ session_id = NoSession)
          => /\ ret'.res = "NoCurrentSession"
             /\ log' = log
             /\ session_id' = session_id]_vars

\* An operation was called on a closed Session and failed locally.
C6_Witness ==
    /\ ret.call \in OpNames
    /\ ret.res = "NoCurrentSession"
    /\ session_id = NoSession
    /\ Has(Ret("Client::close", "Ok"))

\* C10: no call of Driver close returns an error, whether the process exited
\* by itself or was already closed, and whether the caller or Drop calls it.
C10_DriverCloseNeverErrs ==
    \A i \in DOMAIN log : log[i] # Ret("Driver::close", "Err")

----------------------------------------------------------------------------
\* Driver start: chrome.rs (Driver::driver_config), junk_drawer.rs
\* (wait_until) and gecko.rs (Driver::start), from the moment the child has
\* been spawned. Times are in milliseconds.

\* START_TIMEOUT, 120 s.
START_TIMEOUT_MS == 120000

\* The first pause of the polling loops.
FirstPauseMs == 1

\* A health request returns at once or after this long.
SlowRequestMs == 30000

\* The model's clock and the pause stop growing here.
MaxElapsedMs == 300000
MaxPauseMs == 262144

Min(a, b) == IF a < b THEN a ELSE b

\* A pause that grows by a millisecond (a mutant).
NextPause_Linear(p) == p + 1

\* pause_time *= 2.
NextPause(p) == 2 * p
Clock(t) == Min(t, MaxElapsedMs)
RequestMs == {0, SlowRequestMs}

\* What GET <url>status can come to: the request fails to be sent, or it is
\* answered with a status and a body. A running driver may answer anything
\* or not yet listen; a process that has exited does not answer.
Statuses == {200, 204, 404, 503}
Bodies == {"ready", "not ready"}
NotSent == [sent |-> FALSE]
StatusAnswers(ch) ==
    IF ch = "running"
    THEN {NotSent} \cup [sent : {TRUE}, status : Statuses, body : Bodies]
    ELSE {NotSent}

\* StatusCode::is_success.
IsSuccess(status) == 200 <= status /\ status <= 299

\* Driver::is_healthy that wants the body to say ready (a mutant).
IsHealthy_BodyChecked(a) == a.sent /\ IsSuccess(a.status) /\ a.body = "ready"

\* Driver::is_healthy: false when send fails, else whether the status is a
\* success.
IsHealthy(a) == IF ~a.sent THEN FALSE ELSE IsSuccess(a.status)

\* What is_healthy can return, by the state of the driver process.
HealthAnswers(ch) == {IsHealthy(a) : a \in StatusAnswers(ch)}

\* Driver::ensure_still_alive: try_wait; an exited child is reaped by it and
\* the call fails with the exit status.
EnsureStillAlive(ch) ==
    IF ch = "running" THEN [ok |-> TRUE, child |-> ch]
    ELSE [ok |-> FALSE, child |-> "reaped"]

\* gecko.rs, impl Drop for Driver: kill, the result ignored, and no wait.
GeckoDriverDrop(ch, kerr) ==
    LET k == Kill(ch, kerr)
    IN  [child |-> k.child, ev |-> <<Call("Driver::drop")>> \o k.ev]

StartInit ==
    /\ kind \in {"chrome", "gecko"}
    /\ spc = IF kind = "chrome" THEN "test" ELSE "g_health"
    /\ elapsed = 0
    /\ pause_time = FirstPauseMs
    /\ last = "spawn"
    /\ ever_healthy = FALSE
    /\ health = [state |-> "none"]
    /\ child = "running"
    /\ kill_reaped_errs \in BOOLEAN
    /\ log = <<>>
    /\ ret = [call |-> "Driver::start", res |-> "pending"]
    /\ owner = "none"
    /\ alive = {"driver"}
    /\ session_id = NoSession
    /\ calls = 0
    /\ PortIdle
    /\ ExecIdle
    /\ UrlIdle

\* wait_until: the loop condition, as far as the deadline.
WaitUntilTest ==
    /\ spc = "test"
    /\ spc' = IF elapsed < START_TIMEOUT_MS THEN "alive" ELSE "final_alive"
    /\ UNCHANGED <<kind, elapsed, pause_time, last, ever_healthy, health>>
    /\ UNCHANGED <<child, kill_reaped_errs, log, ret>>
    /\ UNCHANGED <<lifeVars, otherVars>>

\* The poll closure of driver_config, first half: driver.ensure_still_alive()?.
\* On the error the driver is dropped and driver_config returns it.
ChromeEnsureStillAlive ==
    /\ spc \in {"alive", "final_alive"}
    /\ last' = "try_wait"
    /\ LET e == EnsureStillAlive(child)
       IN  IF e.ok
           THEN /\ spc' = IF spc = "alive" THEN "health" ELSE "final_health"
                /\ UNCHANGED <<child, log, ret, alive>>
           ELSE LET d == DriverDrop(e.child, kill_reaped_errs)
                IN  /\ spc' = "returned"
                    /\ child' = d.child
                    /\ log' = log \o d.ev
                    /\ ret' = [call |-> "Driver::start", res |-> "ProcessExited"]
                    /\ alive' = {}
    /\ UNCHANGED <<kind, elapsed, pause_time, ever_healthy, health>>
    /\ UNCHANGED <<kill_reaped_errs, owner, session_id, calls, otherVars>>

\* The poll closure, second half: Ok(driver.is_healthy()). In the loop a
\* true answer ends the loop and wait_until checks once more; the answer of
\* that last check is wait_until's result, which driver_config discards.
ChromeIsHealthy ==
    /\ spc \in {"health", "final_health"}
    /\ last' = "GET"
    /\ \E d \in RequestMs, a \in StatusAnswers(child) :
        LET h == IsHealthy(a) IN
         /\ elapsed' = Clock(elapsed + d)
         /\ ever_healthy' = (ever_healthy \/ h)
         /\ health' = [state |-> "answered", a |-> a, healthy |-> h]
         /\ IF spc = "health"
            THEN /\ spc' = IF h THEN "final_alive" ELSE "sleep"
                 /\ UNCHANGED ret
            ELSE /\ spc' = "returned"
                 /\ ret' = [call |-> "Driver::start", res |-> "Ok"]
    /\ UNCHANGED <<kind, pause_time>>
    /\ UNCHANGED <<child, kill_reaped_errs, log>>
    /\ UNCHANGED <<lifeVars, otherVars>>

\* wait_until: thread::sleep(pause_time); pause_time *= 2.
WaitUntilSleep ==
    /\ spc = "sleep"
    /\ last' = "sleep"
    /\ elapsed' = Clock(elapsed + pause_time)
    /\ pause_time' = Min(NextPause(pause_time), MaxPauseMs)
    /\ spc' = "test"
    /\ UNCHANGED <<kind, ever_healthy, health>>
    /\ UNCHANGED <<child, kill_reaped_errs, log, ret>>
    /\ UNCHANGED <<lifeVars, otherVars>>

\* gecko.rs, Driver::start: while !driver.is_healthy().
GeckoIsHealthy ==
    /\ spc = "g_health"
    /\ last' = "GET"
    /\ \E d \in RequestMs, a \in StatusAnswers(child) :
        LET h == IsHealthy(a) IN
         /\ elapsed' = Clock(elapsed + d)
         /\ ever_healthy' = (ever_healthy \/ h)
         /\ health' = [state |-> "answered", a |-> a, healthy |-> h]
         /\ IF h
            THEN /\ spc' = "returned"
                 /\ ret' = [call |-> "Driver::start", res |-> "Ok"]
            ELSE /\ spc' = "g_alive"
                 /\ UNCHANGED ret
    /\ UNCHANGED <<kind, pause_time>>
    /\ UNCHANGED <<child, kill_reaped_errs, log>>
    /\ UNCHANGED <<lifeVars, otherVars>>

\* gecko.rs, Driver::start: driver.ensure_still_alive()? in the loop body.
GeckoEnsureStillAlive ==
    /\ spc = "g_alive"
    /\ last' = "try_wait"
    /\ LET e == EnsureStillAlive(child)
       IN  IF e.ok
           THEN /\ spc' = "g_sleep"
                /\ UNCHANGED <<child, log, ret, alive>>
           ELSE LET d == GeckoDriverDrop(e.child, kill_reaped_errs)
                IN  /\ spc' = "returned"
                    /\ child' = d.child
                    /\ log' = log \o d.ev
                    /\ ret' = [call |-> "Driver::start", res |-> "ProcessExited"]
                    /\ alive' = {}
    /\ UNCHANGED <<kind, elapsed, pause_time, ever_healthy, health>>
    /\ UNCHANGED <<kill_reaped_errs, owner, session_id, calls, otherVars>>

\* gecko.rs, Driver::start: thread::sleep(pause_time); pause_time *= 2.
GeckoSleep ==
    /\ spc = "g_sleep"
    /\ last' = "sleep"
    /\ elapsed' = Clock(elapsed + pause_time)
    /\ pause_time' = Min(NextPause(pause_time), MaxPauseMs)
    /\ spc' = "g_health"
    /\ UNCHANGED <<kind, ever_healthy, health>>
    /\ UNCHANGED <<child, kill_reaped_errs, log, ret>>
    /\ UNCHANGED <<lifeVars, otherVars>>

\* chrome::start and gecko::start, after Driver::start returned a Driver:
\* driver.new_session_config(config)?. A driver that runs may refuse the
\* session, one that does not run cannot open it; on the error the Driver
\* is dropped as the function returns.
StartNewSession ==
    /\ spc = "returned"
    /\ ret = [call |-> "Driver::start", res |-> "Ok"]
    /\ alive = {"driver"}
    /\ last' = "new_session"
    /\ \E opened \in (IF child = "running" THEN BOOLEAN ELSE {FALSE}) :
         IF opened
         THEN /\ \E sid \in SessionIds : session_id' = sid
              /\ alive' = {"client", "driver"}
              /\ owner' = "holder"
              /\ ret' = [call |-> "start", res |-> "Ok"]
              /\ log' = log \o << <<"POST", "session">> >>
              /\ UNCHANGED child
         ELSE LET d == IF kind = "chrome" THEN DriverDrop(child, kill_reaped_errs)
                       ELSE GeckoDriverDrop(child, kill_reaped_errs)
              IN  /\ child' = d.child
                  /\ log' = log \o << <<"POST", "session">> >> \o d.ev
                  /\ alive' = {}
                  /\ ret' = [call |-> "start", res |-> "SessionFailed"]
                  /\ UNCHANGED <<owner, session_id>>
    /\ UNCHANGED <<kind, spc, elapsed, pause_time, ever_healthy, health>>
    /\ UNCHANGED <<kill_reaped_errs, calls, otherVars>>

\* The steps of Driver start itself.
StartStep ==
    \/ WaitUntilTest
    \/ ChromeEnsureStillAlive
    \/ ChromeIsHealthy
    \/ WaitUntilSleep
    \/ GeckoIsHealthy
    \/ GeckoEnsureStillAlive
    \/ GeckoSleep
    \/ StartNewSession

StartNext == ProcessExits \/ StartStep

\* Every call start makes returns, so start keeps taking steps until it
\* returns; nothing is assumed of the driver process.
StartSpec == StartInit /\ [][StartNext]_vars /\ WF_vars(StartStep)

\* C7: a chromedriver start whose process stayed alive and whose health
\* requests were never answered with a success does not return a Driver.
C7_TimeoutFailsStart ==
    (/\ kind = "chrome"
     /\ spc = "returned"
     /\ ~ever_healthy
     /\ child = "running")
    => ret.res # "Ok"

\* C8: in every polling round the exit check comes right before the health
\* request, and an exit check that finds the child exited ends start at once
\* with the process-exited error.
C8_ExitCheckBeforeHealthPoll ==
    [][/\ (last' = "GET" /\ spc' # spc) => last = "try_wait"
       /\ (last' = "try_wait" /\ spc' # spc /\ child # "running")
             => (spc' = "returned" /\ ret'.res = "ProcessExited")]_vars

\* C9: Driver start terminates, for chromedriver and for geckodriver.
C9_StartTerminates == <>(spc = "returned")

----------------------------------------------------------------------------
\* junk_drawer.rs: unused_port_no, called from several threads.

\* No driver and no session exist.
DriverIdle ==
    /\ owner = "none"
    /\ alive = {}
    /\ session_id = NoSession
    /\ child = "reaped"
    /\ kill_reaped_errs = FALSE
    /\ log = <<>>
    /\ ret = [call |-> "none", res |-> "none"]
    /\ calls = 0
    /\ kind = "none"
    /\ spc = "returned"
    /\ elapsed = 0
    /\ pause_time = 0
    /\ last = "none"
    /\ ever_healthy = FALSE
    /\ health = [state |-> "none"]

\* start_port.
StartPort == 4444

\* The number of values of a u16.
U16Modulus == 65536

\* The passes through the loop a call makes in the model.
MaxProbes == 6

\* Binds that may find the address in use when not every port is in use.
MaxBusy == 2

\* The value of the counter and the state of the ports when the calls begin:
\* a fresh process; two candidate ports left below 65536, with every port
\* in use or not; and a counter about to pass the range of a u16.
PortStarts ==
    { <<0, "mixed">>,
      <<U16Modulus - StartPort - 2, "all_busy">>,
      <<U16Modulus - StartPort - 2, "mixed">>,
      <<U16Modulus - 2, "mixed">> }

\* PORT.fetch_add(1, ..) by a load and a store of the same value (a mutant).
FetchAddNew_NotAdded(p) == p

\* PORT.fetch_add(1, Ordering::SeqCst): the value the counter has afterwards.
FetchAddNew(p) == p + 1

\* start_port.wrapping_add(off as u16) (a mutant).
CandidatePort_Wrapping(off) ==
    [ok |-> TRUE, port |-> (StartPort + (off % U16Modulus)) % U16Modulus]

\* start_port.checked_add(off as u16): the cast keeps the low 16 bits of
\* off, and the sum is None when it does not fit a u16.
CandidatePort(off) ==
    LET o16 == off % U16Modulus
    IN  IF StartPort + o16 < U16Modulus
        THEN [ok |-> TRUE, port |-> StartPort + o16]
        ELSE [ok |-> FALSE, port |-> 0]

\* An address in use returned to the caller like any other error (a mutant).
BindResult_AddrInUseFatal(a, port, cur) ==
    IF a = "Ok" THEN [pc |-> "done", res |-> [kind |-> "Ok", port |-> port]]
    ELSE [pc |-> "done", res |-> [kind |-> "Err", why |-> "bind"]]

\* What the loop does with the answer of bind: the port of the listener is
\* the result; an address in use is Ok(None), the loop goes round; any
\* other error is returned.
BindResult(a, port, cur) ==
    IF a = "Ok" THEN [pc |-> "done", res |-> [kind |-> "Ok", port |-> port]]
    ELSE IF a = "AddrInUse" THEN [pc |-> "retry", res |-> cur]
    ELSE [pc |-> "done", res |-> [kind |-> "Err", why |-> "bind"]]

\* What TcpListener::bind can answer.
BindAnswers ==
    IF port_env = "all_busy" THEN {"AddrInUse"}
    ELSE {"Ok", "Other"} \cup (IF busy_left > 0 THEN {"AddrInUse"} ELSE {})

PortInit ==
    /\ DriverIdle
    /\ ExecIdle
    /\ UrlIdle
    /\ \E s \in PortStarts : PORT = s[1] /\ port_env = s[2]
    /\ busy_left = MaxBusy
    /\ ppc = [t \in Threads |-> "start"]
    /\ poff = [t \in Threads |-> 0]
    /\ pres = [t \in Threads |-> [kind |-> "none"]]
    /\ pprobes = [t \in Threads |-> 0]

\* The head of the loop: fetch_add, then the candidate port or the error
\* "Allocated more ports than we have namespace for?".
PortFetchAdd(t) ==
    /\ ppc[t] \in {"start", "retry"}
    /\ pprobes[t] < MaxProbes
    /\ pprobes' = [pprobes EXCEPT ![t] = @ + 1]
    /\ PORT' = FetchAddNew(PORT)
    /\ LET c == CandidatePort(PORT)
       IN  IF c.ok
           THEN /\ ppc' = [ppc EXCEPT ![t] = "bind"]
                /\ poff' = [poff EXCEPT ![t] = c.port]
                /\ UNCHANGED pres
           ELSE /\ ppc' = [ppc EXCEPT ![t] = "done"]
                /\ pres' = [pres EXCEPT ![t] = [kind |-> "Err", why |-> "exhausted"]]
                /\ UNCHANGED poff
    /\ UNCHANGED <<port_env, busy_left>>
    /\ UNCHANGED <<lifeVars, startVars, execVars, moreVars, child, kill_reaped_errs, log, ret>>

\* TcpListener::bind(a): the port of the listener is returned, an address in
\* use is tried again with the next candidate, any other error is returned.
PortBind(t) ==
    /\ ppc[t] = "bind"
    /\ \E a \in BindAnswers :
         LET b == BindResult(a, poff[t], pres[t])
         IN  /\ ppc' = [ppc EXCEPT ![t] = b.pc]
             /\ pres' = [pres EXCEPT ![t] = b.res]
         /\ busy_left' = IF a = "AddrInUse" /\ port_env = "mixed"
                         THEN busy_left - 1 ELSE busy_left
    /\ UNCHANGED <<PORT, port_env, poff, pprobes>>
    /\ UNCHANGED <<lifeVars, startVars, execVars, moreVars, child, kill_reaped_errs, log, ret>>

PortStep(t) == PortFetchAdd(t) \/ PortBind(t)

PortNext == \E t \in Threads : PortStep(t)

\* Every thread keeps running until its call returns.
PortSpec == PortInit /\ [][PortNext]_vars /\ \A t \in Threads : WF_vars(PortStep(t))

\* C11: the ports returned to calls made concurrently from different threads
\* are pairwise distinct, under every interleaving; and in a process whose
\* candidate ports are not used up, every call whose bind did not fail for
\* another reason than an address in use has returned a port.
C11_ConcurrentPortsDistinct ==
    /\ \A t, u \in Threads :
          (t # u /\ pres[t].kind = "Ok" /\ pres[u].kind = "Ok")
              => pres[t].port # pres[u].port
    /\ (PORT < U16Modulus - StartPort - 2 /\ \A t \in Threads : ppc[t] = "done")
          => \A t \in Threads :
                pres[t].kind = "Ok" \/ pres[t] = [kind |-> "Err", why |-> "bind"]

\* Every thread got a port, and one of them had to try again.
C11_Witness ==
    /\ \A t \in Threads : pres[t].kind = "Ok"
    /\ busy_left < MaxBusy

\* C12: every call of unused_port_no returns after a bounded number of
\* probes; when every candidate port from 4444 upwards is in use, it returns
\* the error that the ports are used up, after the last candidate.
C12_PortCallTerminates ==
    /\ <>(\A t \in Threads : ppc[t] = "done" /\ pres[t].kind \in {"Ok", "Err"})
    /\ [](\A t \in Threads :
            (port_env = "all_busy" /\ ppc[t] = "done")
                => pres[t] = [kind |-> "Err", why |-> "exhausted"])

\* With every port in use, a call gave up after the last candidate port.
C12_Witness ==
    /\ port_env = "all_busy"
    /\ \E t \in Threads : ppc[t] = "done" /\ pres[t] = [kind |-> "Err", why |-> "exhausted"]
    /\ PORT > U16Modulus - StartPort

----------------------------------------------------------------------------
\* client.rs: the JSON that crosses the wire, and serde's reading of it.

\* JSON values.  An object is a function from its keys to values.
JNull == [t |-> "null"]
JStr(x) == [t |-> "str", s |-> x]
JNum(x) == [t |-> "num", n |-> x]
JArr(x) == [t |-> "arr", a |-> x]
JObj(x) == [t |-> "obj", o |-> x]

\* The key of an element reference in the W3C protocol, and that of the
\* protocol that came before it.
W3CKey == "element-6066-11e4-a52e-4f735466cecf"
LegacyKey == "ELEMENT"

\* Result<R, Error>.
Ok(x) == [ok |-> TRUE, v |-> x]
Err(x) == [ok |-> FALSE, e |-> x]

\* serde_json refusing a value, or reqwest failing to read the body as JSON.
JsonErr == Err([kind |-> "Json"])

\* A derived struct is read from an object that has every field (further
\* keys are skipped) or from an array of as many values as it has fields.
StructFields(j, keys) ==
    IF j.t = "obj"
    THEN IF \A i \in 1..Len(keys) : keys[i] \in DOMAIN j.o
         THEN [ok |-> TRUE, f |-> [i \in 1..Len(keys) |-> j.o[keys[i]]]]
         ELSE [ok |-> FALSE]
    ELSE IF j.t = "arr" /\ Len(j.a) = Len(keys)
         THEN [ok |-> TRUE, f |-> j.a]
         ELSE [ok |-> FALSE]

\* () that is read from any value (a mutant).
DeUnit_Any(j) == Ok([ty |-> "Unit"])

\* (): only from null.
DeUnit(j) == IF j.t = "null" THEN Ok([ty |-> "Unit"]) ELSE JsonErr

\* String.
DeString(j) == IF j.t = "str" THEN Ok([ty |-> "String", s |-> j.s]) ELSE JsonErr

\* Option<String> that has no None (a mutant).
DeOptionString_NoNone(j) ==
    IF j.t = "str" THEN Ok([ty |-> "Some", some |-> j.s]) ELSE JsonErr

\* Option<String>: None from null, otherwise Some of a String.
DeOptionString(j) ==
    IF j.t = "null" THEN Ok([ty |-> "None"])
    ELSE IF j.t = "str" THEN Ok([ty |-> "Some", some |-> j.s]) ELSE JsonErr

\* u64.
DeU64(j) == j.t = "num" /\ j.n >= 0

\* struct Window(String): a newtype is read as the value it wraps.
DeWindow(j) == IF j.t = "str" THEN Ok([ty |-> "Window", w |-> j.s]) ELSE JsonErr

\* struct Element read from the key of the older protocol (a mutant).
DeElement_LegacyKey(j) ==
    LET f == StructFields(j, <<LegacyKey>>)
    IN  IF f.ok /\ f.f[1].t = "str"
        THEN Ok([ty |-> "Element", id |-> f.f[1].s])
        ELSE JsonErr

\* struct Element { #[serde(rename = "element-6066-...")] _id: String }.
DeElement(j) ==
    LET f == StructFields(j, <<W3CKey>>)
    IN  IF f.ok /\ f.f[1].t = "str"
        THEN Ok([ty |-> "Element", id |-> f.f[1].s])
        ELSE JsonErr

\* Vec<Window>: from an array whose every value reads as a Window.
DeVecWindow(j) ==
    IF j.t = "arr" /\ \A i \in 1..Len(j.a) : DeWindow(j.a[i]).ok
    THEN Ok([ty |-> "Vec", items |-> [i \in 1..Len(j.a) |-> DeWindow(j.a[i]).v]])
    ELSE JsonErr

\* Vec<Element>: from an array whose every value reads as an Element.
DeVecElement(j) ==
    IF j.t = "arr" /\ \A i \in 1..Len(j.a) : DeElement(j.a[i]).ok
    THEN Ok([ty |-> "Vec", items |-> [i \in 1..Len(j.a) |-> DeElement(j.a[i]).v]])
    ELSE JsonErr

\* The names on the wire of the fields of Timeouts, were they not renamed
\* (a mutant).
TimeoutsKeys_SnakeCase == <<"implicit", "page_load", "script">>

\* #[serde(rename_all = "camelCase")] on Timeouts: the names on the wire of
\* implicit, page_load and script.
TimeoutsKeys == <<"implicit", "pageLoad", "script">>

\* struct Timeouts.
DeTimeouts(j) ==
    LET f == StructFields(j, TimeoutsKeys)
    IN  IF f.ok /\ \A i \in 1..3 : DeU64(f.f[i])
        THEN Ok([ty |-> "Timeouts", implicit |-> f.f[1].n,
                 page_load |-> f.f[2].n, script |-> f.f[3].n])
        ELSE JsonErr

\* Timeouts as the body of a request.
SerTimeouts(x) ==
    JObj((TimeoutsKeys[1] :> JNum(x.implicit))
         @@ (TimeoutsKeys[2] :> JNum(x.page_load))
         @@ (TimeoutsKeys[3] :> JNum(x.script)))

\* struct NewSessionResp { session_id }, renamed to sessionId.
DeNewSessionResp(j) ==
    LET f == StructFields(j, <<"sessionId">>)
    IN  IF f.ok /\ f.f[1].t = "str"
        THEN Ok([ty |-> "NewSessionResp", session_id |-> f.f[1].s])
        ELSE JsonErr

\* struct WdError { error, message }.
DeWdError(j) ==
    LET f == StructFields(j, <<"error", "message">>)
    IN  IF f.ok /\ f.f[1].t = "str" /\ f.f[2].t = "str"
        THEN Ok([ty |-> "WdError", error |-> f.f[1].s, message |-> f.f[2].s])
        ELSE JsonErr

\* The types R that execute is asked for.
ResultTypes ==
    {"Unit", "String", "OptionString", "Window", "VecWindow", "Element",
     "VecElement", "Timeouts", "NewSessionResp"}

\* Deserialize for each of them, and for WdError.
De(R, j) ==
    CASE R = "Unit" -> DeUnit(j)
      [] R = "String" -> DeString(j)
      [] R = "OptionString" -> DeOptionString(j)
      [] R = "Window" -> DeWindow(j)
      [] R = "VecWindow" -> DeVecWindow(j)
      [] R = "Element" -> DeElement(j)
      [] R = "VecElement" -> DeVecElement(j)
      [] R = "Timeouts" -> DeTimeouts(j)
      [] R = "NewSessionResp" -> DeNewSessionResp(j)
      [] R = "WdError" -> DeWdError(j)

\* res.json::<HasValue<R>>(): the body has to be JSON, and an object with
\* the key value (or an array of one value); a value that is missing reads
\* as None when R is an Option.
DeHasValue(R, body) ==
    IF ~body.json THEN JsonErr
    ELSE LET f == StructFields(body.j, <<"value">>)
         IN  IF f.ok THEN De(R, f.f[1])
             ELSE IF body.j.t = "obj" /\ R = "OptionString" THEN Ok([ty |-> "None"])
             ELSE JsonErr

----------------------------------------------------------------------------
\* client.rs: execute.

\* Header values, cut where the prefixes that execute tests for end.
ApplicationJson == <<"application/json">>
TextSlash == <<"text/">>
OctetStream == <<"application/octet-stream">>

\* str::starts_with.
StartsWith(x, prefix) ==
    Len(prefix) <= Len(x) /\ SubSeq(x, 1, Len(prefix)) = prefix

\* The Content-Type of a response, when there is none.
ContentTypeOf(r) == IF r.ctype.present THEN r.ctype.v ELSE OctetStream

\* execute that reads the error of every response that is not a success
\* (a mutant).
Execute_AnyContentType(R, r) ==
    IF r.success
    THEN DeHasValue(R, r.body)
    ELSE LET d == DeHasValue("WdError", r.body)
         IN  IF d.ok
             THEN Err([kind |-> "WdError", error |-> d.v.error, message |-> d.v.message])
             ELSE JsonErr

\* execute that makes an unknown error of a JSON error body it cannot read
\* (a mutant).
Execute_LenientError(R, r) ==
    IF r.success
    THEN DeHasValue(R, r.body)
    ELSE IF StartsWith(ContentTypeOf(r), ApplicationJson)
         THEN LET d == DeHasValue("WdError", r.body)
              IN  IF d.ok
                  THEN Err([kind |-> "WdError", error |-> d.v.error,
                            message |-> d.v.message])
                  ELSE Err([kind |-> "WdError", error |-> "unknown error", message |-> ""])
         ELSE IF StartsWith(ContentTypeOf(r), TextSlash)
              THEN Err([kind |-> "Text", body |-> r.body])
              ELSE Err([kind |-> "Status"])

\* execute that takes the value of every response that has one (a mutant).
Execute_AnyStatus(R, r) == DeHasValue(R, r.body)

\* execute, after req.send() has returned the response r.
Execute(R, r) ==
    IF r.success
    THEN DeHasValue(R, r.body)
    ELSE IF StartsWith(ContentTypeOf(r), ApplicationJson)
         THEN LET d == DeHasValue("WdError", r.body)
              IN  IF d.ok
                  THEN Err([kind |-> "WdError", error |-> d.v.error,
                            message |-> d.v.message])
                  ELSE JsonErr
         ELSE IF StartsWith(ContentTypeOf(r), TextSlash)
              THEN Err([kind |-> "Text", body |-> r.body])
              ELSE Err([kind |-> "Status"])

----------------------------------------------------------------------------
\* The driver at the other end, as the tests of the crate meet it.

\* Content-Type headers.
JsonUtf8 == [present |-> TRUE, v |-> <<"application/json", "; charset=utf-8">>]
JsonPlain == [present |-> TRUE, v |-> <<"application/json">>]
TextPlain == [present |-> TRUE, v |-> <<"text/", "plain">>]
TextHtml == [present |-> TRUE, v |-> <<"text/", "html; charset=utf-8">>]
ImagePng == [present |-> TRUE, v |-> <<"image/png">>]
NoContentType == [present |-> FALSE]

JsonBody(j) == [json |-> TRUE, j |-> j]
TextBody(x) == [json |-> FALSE, text |-> x]

\* {"value": v}.
Envelope(v) == JObj([value |-> v])

\* A response of the driver: 200 with a value.
Success(v) == [success |-> TRUE, ctype |-> JsonUtf8, body |-> JsonBody(Envelope(v))]

\* The body of an error of the driver (tests::can_parse_error_response_from_chrome_driver).
ErrorValue(code, msg) ==
    JObj([error |-> JStr(code), message |-> JStr(msg), stacktrace |-> JStr("Backtrace")])

\* A response of the driver: an error status with the error as JSON.
Failure(code, msg) ==
    [success |-> FALSE, ctype |-> JsonUtf8, body |-> JsonBody(Envelope(ErrorValue(code, msg)))]

\* The selectors of the tests and the elements of the page they match.
Selectors == {"#missing-element", "#with-children", ".three-of-these"}
Matches(by) ==
    CASE by = "#missing-element" -> <<>>
      [] by = "#with-children" -> <<"e0">>
      [] by = ".three-of-these" -> <<"e1", "e2", "e3">>

\* The attributes of the tests and their values on the element.
AttributeNames == {"data-my-id", "missing"}
AttributeValue(name) == IF name = "data-my-id" THEN JStr("my-id-value") ELSE JNull

\* An element reference as the driver writes it.
ElementRef(id) == JObj(W3CKey :> JStr(id))

\* The answer to find element.
DriverFindElement(by) ==
    IF Len(Matches(by)) = 0
    THEN Failure("no such element", by)
    ELSE Success(ElementRef(Matches(by)[1]))

\* The answer to find elements.
DriverFindElements(by) ==
    Success(JArr([i \in 1..Len(Matches(by)) |-> ElementRef(Matches(by)[i])]))

\* The answer to get element attribute.
DriverAttribute(name) == Success(AttributeValue(name))

\* The answer to get timeouts.
DriverGetTimeouts(rem) ==
    Success(JObj([implicit |-> JNum(rem.timeouts.implicit),
                  pageLoad |-> JNum(rem.timeouts.pageLoad),
                  script |-> JNum(rem.timeouts.script)]))

\* What set timeouts leaves in the driver: the members of the body that
\* it knows replace the ones it has.
DriverSetTimeouts(rem, j) ==
    [rem EXCEPT !.timeouts =
        [k \in {"implicit", "pageLoad", "script"} |->
            IF k \in DOMAIN j.o /\ j.o[k].t = "num" THEN j.o[k].n ELSE @[k]]]

\* The answer to new session: a driver that rejects the capabilities
\* answers with an error; geckodriver and the W3C protocol put sessionId
\* under value, chromedriver at the top of the envelope.
DriverNewSession(rem) ==
    IF ~rem.accepts
    THEN Failure("session not created", "unable to find a matching set of capabilities")
    ELSE IF rem.kind = "toplevel"
         THEN [success |-> TRUE, ctype |-> JsonUtf8,
               body |-> JsonBody(JObj([sessionId |-> JStr("s1"), status |-> JNum(0),
                                       value |-> JObj([browserName |-> JStr("chrome")])]))]
         ELSE Success(JObj([sessionId |-> JStr("s1"),
                            capabilities |-> JObj([browserName |-> JStr("firefox")])]))

\* Values a server may put in a body.
AnyValues ==
    { JNull, JStr("abc"), JNum(1), JArr(<<>>), JArr(<<JStr("w1")>>),
      ElementRef("e1"), JObj(LegacyKey :> JStr("e1")),
      JArr(<<ElementRef("e1")>>),
      ErrorValue("no such element", "msg"),
      JObj([error |-> JStr("unknown error"), message |-> JStr("msg")]),
      JObj([message |-> JStr("msg")]),
      JObj([error |-> JNum(7), message |-> JStr("msg")]),
      JArr(<<JStr("unknown error"), JStr("msg")>>),
      JObj([implicit |-> JNum(0), pageLoad |-> JNum(1), script |-> JNum(2)]),
      JObj([sessionId |-> JStr("s1")]) }

\* Bodies a server may send.
AnyBodies ==
    { JsonBody(Envelope(v)) : v \in AnyValues }
    \cup { JsonBody(JObj([status |-> JNum(7), value |-> JObj([message |-> JStr("msg")])])),
           JsonBody(JObj([sessionId |-> JStr("s1"), status |-> JNum(0), value |-> JObj(<<>>)])),
           JsonBody(JObj(<<>>)),
           JsonBody(JArr(<<ErrorValue("no such element", "msg")>>)),
           TextBody("<html>Bad Gateway</html>"),
           TextBody("") }

\* Responses a server may send.
AnyResponses ==
    [ success : BOOLEAN,
      ctype : {JsonUtf8, JsonPlain, TextPlain, TextHtml, ImagePng, NoContentType},
      body : AnyBodies ]

----------------------------------------------------------------------------
\* client.rs: the operations of a Client against a driver.

\* Operations on one session in the model.
MaxOps == 3

\* The values a field of Timeouts takes in the model.
TimeoutValues == {0, 1, 2}

NewSessionEv == <<"POST", "session">>

\* Client::new_with_http reading the body without execute (a mutant).
NewWithHttp_Unwrapped(r) ==
    LET e == DeHasValue("NewSessionResp", r.body)
    IN  IF e.ok
        THEN [client |-> TRUE, session_id |-> e.v.session_id,
              res |-> Ok([ty |-> "Client", session_id |-> e.v.session_id])]
        ELSE [client |-> FALSE, session_id |-> NoSession, res |-> e]

\* Client::new_with_http, given the response to the new session request:
\* the body of execute, then Client { .., session_id: Some(body.session_id) }.
NewWithHttp(r) ==
    LET e == Execute("NewSessionResp", r)
    IN  IF e.ok
        THEN [client |-> TRUE, session_id |-> e.v.session_id,
              res |-> Ok([ty |-> "Client", session_id |-> e.v.session_id])]
        ELSE [client |-> FALSE, session_id |-> NoSession, res |-> e]

\* A Session operation: self.session()?, then execute.
SessionExecute(sid, R, r) ==
    IF ~session(sid).ok THEN Err([kind |-> "NoSession"]) ELSE Execute(R, r)

\* An operation that is given nothing.
NoArg == [none |-> TRUE]

\* The operation before this one, and what it was given.
Prev == [op |-> out.op, arg |-> IF out.op = "set_timeouts" THEN out.arg ELSE NoArg,
         ok |-> IF out.op = "none" THEN FALSE ELSE out.r.ok]

ExecInit ==
    /\ owner = "separate"
    /\ alive = {}
    /\ session_id = NoSession
    /\ child = "running"
    /\ kill_reaped_errs = FALSE
    /\ log = <<>>
    /\ ret = [call |-> "none", res |-> "none"]
    /\ calls = 0
    /\ kind = "none"
    /\ spc = "returned"
    /\ elapsed = 0
    /\ pause_time = 0
    /\ last = "none"
    /\ ever_healthy = FALSE
    /\ health = [state |-> "none"]
    /\ PortIdle
    /\ UrlIdle
    /\ \E k \in {"w3c", "toplevel", "any"}, a \in BOOLEAN :
          remote = [state |-> "up", kind |-> k, accepts |-> a,
                    timeouts |-> [implicit |-> 0, pageLoad |-> 2, script |-> 1]]
    /\ http = [state |-> "none"]
    /\ out = [op |-> "none"]

\* What an action of the client leaves alone.
ExecFrame == UNCHANGED <<owner, child, kill_reaped_errs, ret, startVars, portVars, moreVars>>

\* Client::new against a driver.
Open ==
    /\ alive = {}
    /\ out.op = "none"
    /\ remote.kind # "any"
    /\ LET r == DriverNewSession(remote)
           n == NewWithHttp(r)
       IN  /\ http' = [state |-> "received", r |-> r]
           /\ out' = [op |-> "new", r |-> n.res, prev |-> Prev]
           /\ alive' = IF n.client THEN {"client"} ELSE {}
           /\ session_id' = n.session_id
           /\ log' = log \o <<NewSessionEv>>
    /\ UNCHANGED <<remote, calls>>
    /\ ExecFrame

\* Client::new against a server that may answer anything.
OpenAny ==
    /\ alive = {}
    /\ out.op = "none"
    /\ remote.kind = "any"
    /\ \E r \in AnyResponses :
         LET n == NewWithHttp(r)
         IN  /\ http' = [state |-> "received", r |-> r]
             /\ out' = [op |-> "new", r |-> n.res, prev |-> Prev]
             /\ alive' = IF n.client THEN {"client"} ELSE {}
             /\ session_id' = n.session_id
             /\ log' = log \o <<NewSessionEv>>
    /\ UNCHANGED <<remote, calls>>
    /\ ExecFrame

\* The common part of the Session operations that leave the driver as it is.
Exchange(op, arg, R, r) ==
    /\ "client" \in alive
    /\ calls < MaxOps
    /\ calls' = calls + 1
    /\ http' = [state |-> "received", r |-> r]
    /\ out' = [op |-> op, arg |-> arg, R |-> R, r |-> SessionExecute(session_id, R, r),
               prev |-> Prev]
    /\ log' = log \o <<Request(session_id)>>
    /\ UNCHANGED <<alive, session_id>>
    /\ ExecFrame

\* Client::find_element and Client::find_element_from.
FindElement ==
    /\ remote.kind = "w3c"
    /\ \E op \in {"find_element", "find_element_from"}, by \in Selectors :
          Exchange(op, [by |-> by], "Element", DriverFindElement(by))
    /\ UNCHANGED remote

\* Client::find_elements and Client::find_elements_from.
FindElements ==
    /\ remote.kind = "w3c"
    /\ \E op \in {"find_elements", "find_elements_from"}, by \in Selectors :
          Exchange(op, [by |-> by], "VecElement", DriverFindElements(by))
    /\ UNCHANGED remote

\* Client::attribute.
Attribute ==
    /\ remote.kind = "w3c"
    /\ \E name \in AttributeNames :
          Exchange("attribute", [name |-> name], "OptionString", DriverAttribute(name))
    /\ UNCHANGED remote

\* Client::timeouts.
GetTimeouts ==
    /\ remote.kind = "w3c"
    /\ Exchange("timeouts", NoArg, "Timeouts", DriverGetTimeouts(remote))
    /\ UNCHANGED remote

\* Client::set_timeouts.
SetTimeouts ==
    /\ remote.kind = "w3c"
    /\ \E i, p, sc \in TimeoutValues :
          LET T == [implicit |-> i, page_load |-> p, script |-> sc]
          IN  /\ Exchange("set_timeouts", T, "Unit", Success(JNull))
              /\ remote' = DriverSetTimeouts(remote, SerTimeouts(T))

\* Any Session operation, against a server that may answer anything; the
\* first operation of a session is enough, execute keeps nothing.
SessionOpAny ==
    /\ remote.kind = "any"
    /\ out.op = "new"
    /\ \E R \in ResultTypes, r \in AnyResponses : Exchange("any", NoArg, R, r)
    /\ UNCHANGED remote

\* The Client goes out of scope.
ExecDrop ==
    /\ "client" \in alive
    /\ LET d == ClientDrop(session_id, "Ok")
       IN  /\ session_id' = d.session_id
           /\ log' = log \o d.ev
    /\ alive' = {}
    /\ UNCHANGED <<remote, http, out, calls>>
    /\ ExecFrame

ExecNext ==
    \/ Open
    \/ OpenAny
    \/ FindElement
    \/ FindElements
    \/ Attribute
    \/ GetTimeouts
    \/ SetTimeouts
    \/ SessionOpAny
    \/ ExecDrop

ExecSpec == ExecInit /\ [][ExecNext]_vars

----------------------------------------------------------------------------
\* Claims about execute and the operations built on it.

\* A request has been answered: the response, and what the operation returned.
Answered == http.state = "received" /\ out.op # "none"

\* The error is a WdError, the error of the protocol.
IsProtocolError(x) == ~x.ok /\ x.e.kind = "WdError"

JsonTypes == {JsonUtf8, JsonPlain}
TextTypes == {TextPlain, TextHtml}

\* C13 as stated: a response that is not a success is classified by its
\* content type only, and the error is a Protocol Error if and only if the
\* response was not a success and its content type is application/json.
C13_ClassifiedByContentTypeOnly ==
    Answered =>
        /\ IsProtocolError(out.r) <=> (~http.r.success /\ http.r.ctype \in JsonTypes)
        /\ (~http.r.success /\ http.r.ctype \in TextTypes)
              => out.r = Err([kind |-> "Text", body |-> http.r.body])
        /\ (~http.r.success /\ http.r.ctype \notin (JsonTypes \cup TextTypes))
              => out.r = Err([kind |-> "Status"])

\* C13, amended: the error is a Protocol Error if and only if the response
\* was not a success, its content type begins with application/json and its
\* body reads as a value holding error and message; a JSON body of another
\* shape gives the error of the decoder, a text/* body an error carrying the
\* text, any other or no content type a generic error.
C13_ProtocolErrorNeedsErrorBody ==
    Answered =>
        LET d == DeHasValue("WdError", http.r.body)
        IN  /\ IsProtocolError(out.r)
                <=> (~http.r.success /\ http.r.ctype \in JsonTypes /\ d.ok)
            /\ IsProtocolError(out.r)
                => (out.r.e.error = d.v.error /\ out.r.e.message = d.v.message)
            /\ (~http.r.success /\ http.r.ctype \in JsonTypes /\ ~d.ok)
                  => out.r = JsonErr
            /\ (~http.r.success /\ http.r.ctype \in TextTypes)
                  => out.r = Err([kind |-> "Text", body |-> http.r.body])
            /\ (~http.r.success /\ http.r.ctype \notin (JsonTypes \cup TextTypes))
                  => out.r = Err([kind |-> "Status"])

\* An error status with a JSON body that holds no error gave the error of
\* the decoder.
C13_Witness ==
    /\ Answered
    /\ out.op = "any"
    /\ ~http.r.success
    /\ http.r.ctype = JsonUtf8
    /\ http.r.body = JsonBody(JObj([status |-> JNum(7), value |-> JObj([message |-> JStr("msg")])]))
    /\ out.r = JsonErr

\* C14: a single-element lookup whose selector matches nothing returns an
\* error that is a Protocol Error carrying the code and the message of the
\* driver, never another kind of error and never an element.
C14_MissingElementIsProtocolError ==
    (out.op \in {"find_element", "find_element_from"} /\ Len(Matches(out.arg.by)) = 0)
        => /\ IsProtocolError(out.r)
           /\ out.r.e.error = "no such element"
           /\ out.r.e.message = out.arg.by

\* find_element_from was asked for an element that is not there.
C14_Witness ==
    /\ out.op = "find_element_from"
    /\ out.arg.by = "#missing-element"
    /\ http.r.success = FALSE
    /\ IsProtocolError(out.r)

\* C15: a multi-element lookup returns one handle per matching element, in
\* the order of the driver; when nothing matches it returns an empty
\* sequence as a success.
C15_ElementsOnePerMatch ==
    out.op \in {"find_elements", "find_elements_from"}
        => /\ out.r.ok
           /\ Len(out.r.v.items) = Len(Matches(out.arg.by))
           /\ \A i \in 1..Len(Matches(out.arg.by)) :
                 out.r.v.items[i] = [ty |-> "Element", id |-> Matches(out.arg.by)[i]]

\* find_elements matched nothing and returned the empty Vec, after a lookup
\* that returned three elements.
C15_Witness ==
    /\ out.op = "find_elements"
    /\ out.arg.by = "#missing-element"
    /\ out.r = Ok([ty |-> "Vec", items |-> <<>>])
    /\ out.prev.op = "find_elements_from"
    /\ out.prev.ok

\* C16: the attribute of an existing element is Some(value) with the value
\* of the driver when the element has it and None when the driver answers
\* null; neither is an error.
C16_AttributeSomeOrNone ==
    out.op = "attribute"
        => /\ out.r.ok
           /\ AttributeValue(out.arg.name).t = "str"
                 => out.r.v = [ty |-> "Some", some |-> AttributeValue(out.arg.name).s]
           /\ AttributeValue(out.arg.name).t = "null"
                 => out.r.v = [ty |-> "None"]

\* The attribute that the element has not was read as None.
C16_Witness ==
    /\ out.op = "attribute"
    /\ out.arg.name = "missing"
    /\ http.r.body = JsonBody(Envelope(JNull))
    /\ out.r = Ok([ty |-> "None"])

\* C17: timeouts() right after a successful set_timeouts(T) on the same
\* session returns a record equal to T in implicit, page_load and script.
C17_TimeoutsRoundTrip ==
    (out.op = "timeouts" /\ out.prev.op = "set_timeouts" /\ out.prev.ok)
        => /\ out.r.ok
           /\ out.r.v.implicit = out.prev.arg.implicit
           /\ out.r.v.page_load = out.prev.arg.page_load
           /\ out.r.v.script = out.prev.arg.script

\* Timeouts that differ from those of the driver in every field came back.
C17_Witness ==
    /\ out.op = "timeouts"
    /\ out.prev.op = "set_timeouts"
    /\ out.prev.arg = [implicit |-> 1, page_load |-> 0, script |-> 2]
    /\ out.r = Ok([ty |-> "Timeouts", implicit |-> 1, page_load |-> 0, script |-> 2])

\* The value of the body is an object with error and message.
HasErrorValue(body) ==
    /\ body.json
    /\ body.j.t = "obj"
    /\ "value" \in DOMAIN body.j.o
    /\ body.j.o.value.t = "obj"
    /\ {"error", "message"} \subseteq DOMAIN body.j.o.value.o

\* C18: a response with a success status whose value is an object with
\* error and message makes the operation return an error, whatever type of
\* result it expects.
C18_ErrorValueUnderSuccessIsError ==
    (Answered /\ http.r.success /\ HasErrorValue(http.r.body)) => ~out.r.ok

\* An operation that expects () got an error object under a success status.
C18_Witness ==
    /\ out.op = "any"
    /\ out.R = "Unit"
    /\ http.r.success
    /\ http.r.body = JsonBody(Envelope(ErrorValue("no such element", "msg")))
    /\ ~out.r.ok

\* C19: Client::new returns a Client holding the session id of the driver,
\* whether the driver puts sessionId at the top of the envelope or under
\* value.
C19_OpenReadsBothShapes ==
    (out.op = "new" /\ remote.kind \in {"w3c", "toplevel"} /\ remote.accepts)
        => out.r = Ok([ty |-> "Client", session_id |-> "s1"])

\* C20: when the driver rejects the new session request with a JSON error,
\* Client::new fails with the Protocol Error of the driver; no Client is
\* made, and no delete-session request is sent.
C20_RejectedOpenMakesNoSession ==
    /\ (out.op = "new" /\ remote.kind # "any" /\ ~remote.accepts)
          => /\ IsProtocolError(out.r)
             /\ out.r.e.error = "session not created"
             /\ out.r.e.message = "unable to find a matching set of capabilities"
    /\ (out.op = "new" /\ ~out.r.ok)
          => /\ alive = {}
             /\ session_id = NoSession
             /\ Count("DELETE") = 0

\* The driver rejected the capabilities.
C20_Witness ==
    /\ out.op = "new"
    /\ ~remote.accepts
    /\ ~http.r.success
    /\ IsProtocolError(out.r)
    /\ alive = {}

\* C21: an element reference of the driver reads as an Element whether the
\* identifier is under the legacy key or under the W3C key, and as the same
\* Element for the same identifier.
C21_ElementDecodesUnderEitherKey ==
    \A id \in {"e1"} :
        (/\ Answered
         /\ out.op = "any"
         /\ out.R = "Element"
         /\ http.r.success
         /\ http.r.body \in { JsonBody(Envelope(ElementRef(id))),
                              JsonBody(Envelope(JObj(LegacyKey :> JStr(id)))) })
            => out.r = Ok([ty |-> "Element", id |-> id])

----------------------------------------------------------------------------
\* client.rs: url_of_segments.  A string is the sequence of its
\* characters; a percent-escape is written as one element, since nothing
\* between the encoder and the server looks inside it.

\* The backslash.
Backslash == "backslash"

\* The characters of the model.
UrlChars == {"a", ".", "/", "%", "?", "#", Backslash, " "}

\* The longest segment a caller passes in the model.
MaxSegLen == 2

\* The values a caller may pass for a session id, an element id or the name
\* of an attribute.
Segments == UNION { [1..n -> UrlChars] : n \in 0..MaxSegLen }
ShortSegments == UNION { [1..n -> UrlChars] : n \in 0..1 }

\* PATH_SEGMENT_ENCODE_SET: CONTROLS and the space, <, >, ?, {, }, %, /,
\* and the double quote and the backquote, which are left out here as no
\* segment of the model has one.
PATH_SEGMENT_ENCODE_SET == {" ", "<", ">", "?", "{", "}", "%", "/"}

\* The escape of a character.
Escape(c) ==
    CASE c = " " -> "%20"
      [] c = "<" -> "%3C"
      [] c = ">" -> "%3E"
      [] c = "?" -> "%3F"
      [] c = "{" -> "%7B"
      [] c = "}" -> "%7D"
      [] c = "%" -> "%25"
      [] c = "/" -> "%2F"
      [] OTHER -> c

\* utf8_percent_encode(seg, PATH_SEGMENT_ENCODE_SET).
Utf8PercentEncode(seg) ==
    [i \in 1..Len(seg) |-> IF seg[i] \in PATH_SEGMENT_ENCODE_SET THEN Escape(seg[i]) ELSE seg[i]]

\* The loop of url_of_segments: the encoded segments with a / between them.
RECURSIVE PathOf(_)
PathOf(elts) ==
    IF Len(elts) = 0 THEN <<>>
    ELSE IF Len(elts) = 1 THEN Utf8PercentEncode(elts[1])
    ELSE PathOf(SubSeq(elts, 1, Len(elts) - 1)) \o <<"/">> \o Utf8PercentEncode(elts[Len(elts)])

\* Url::join reads its argument as a relative reference: the fragment begins
\* at the first #, and the query at the first ? before it.
IndexOf(s, c) ==
    IF \E i \in 1..Len(s) : s[i] = c
    THEN CHOOSE i \in 1..Len(s) : s[i] = c /\ \A k \in 1..(i - 1) : s[k] # c
    ELSE 0
BeforeFragment(s) == IF IndexOf(s, "#") = 0 THEN s ELSE SubSeq(s, 1, IndexOf(s, "#") - 1)
BeforeQuery(s) ==
    IF IndexOf(BeforeFragment(s), "?") = 0 THEN BeforeFragment(s)
    ELSE SubSeq(BeforeFragment(s), 1, IndexOf(BeforeFragment(s), "?") - 1)

\* The path is cut at / and, for http URLs, at the backslash as well.
RECURSIVE SplitFrom(_, _, _)
SplitFrom(s, i, cur) ==
    IF i > Len(s) THEN <<cur>>
    ELSE IF s[i] \in {"/", Backslash} THEN <<cur>> \o SplitFrom(s, i + 1, <<>>)
    ELSE SplitFrom(s, i + 1, Append(cur, s[i]))

\* The components are put after the directory of the base; "." is dropped
\* and ".." takes the component before it, and either of them at the end
\* leaves the path ending in a slash (an empty last component).
RECURSIVE ResolveFrom(_, _, _)
ResolveFrom(comps, i, acc) ==
    IF i > Len(comps) THEN acc
    ELSE LET c == comps[i]
             atEnd == i = Len(comps)
             kept == IF c = <<".", ".">>
                     THEN (IF Len(acc) > 0 THEN SubSeq(acc, 1, Len(acc) - 1) ELSE acc)
                     ELSE acc
         IN  IF c = <<".", ".">> \/ c = <<".">>
             THEN ResolveFrom(comps, i + 1, IF atEnd THEN Append(kept, <<>>) ELSE kept)
             ELSE ResolveFrom(comps, i + 1, Append(acc, c))

\* self.url.join(&path), for a path that begins with a segment name.
UrlJoin(base, s) ==
    [ state |-> "url",
      path |-> ResolveFrom(SplitFrom(BeforeQuery(s), 1, <<>>), 1, base),
      query |-> IndexOf(BeforeFragment(s), "?") # 0,
      fragment |-> IndexOf(s, "#") # 0 ]

\* Client::url_of_segments.
url_of_segments(base, elts) == UrlJoin(base, PathOf(elts))

\* The paths Client.url may have: the root, as Driver::url gives it, or a
\* directory below it.
UrlBases == { <<>>, << <<"w", "d">> >> }

UrlInit ==
    /\ DriverIdle
    /\ PortIdle
    /\ ExecIdle
    /\ url_base \in UrlBases
    /\ url_elts = <<>>
    /\ url_res = [state |-> "none"]

\* One call is followed; url_of_segments keeps nothing between calls.
UrlFrame == UNCHANGED <<lifeVars, startVars, portVars, execVars, child, kill_reaped_errs, log, ret, url_base>>

\* Client::close: url_of_segments(&["session", session_id]).
SessionUrl ==
    /\ url_res.state = "none"
    /\ \E sid \in Segments :
         /\ url_elts' = << <<"session">>, sid >>
         /\ url_res' = url_of_segments(url_base, url_elts')
    /\ UrlFrame

\* Client::attribute:
\* url_of_segments(&["session", session, "element", elt.id(), "attribute", attribute]).
AttributeUrl ==
    /\ url_res.state = "none"
    /\ \E sid \in ShortSegments, eid \in ShortSegments, name \in Segments :
         /\ url_elts' = << <<"session">>, sid, <<"element">>, eid, <<"attribute">>, name >>
         /\ url_res' = url_of_segments(url_base, url_elts')
    /\ UrlFrame

UrlNext == SessionUrl \/ AttributeUrl

UrlSpec == UrlInit /\ [][UrlNext]_vars

\* C22: the path of the URL that url_of_segments returns has, after the
\* path of the base, exactly one component per segment, in order, each the
\* encoding of its segment; and the URL has no query and no fragment.
C22_OneComponentPerSegment ==
    url_res.state = "url"
        => /\ url_res.path = url_base \o [i \in 1..Len(url_elts) |-> Utf8PercentEncode(url_elts[i])]
           /\ ~url_res.query
           /\ ~url_res.fragment

----------------------------------------------------------------------------
\* client.rs: navigation, windows and frames, against a browser that keeps
\* a history for each window, a current window and a current frame, as the
\* tests of the crate drive it (canary.rs: can_navigate, window_handles,
\* frames_by_ref, frames_parent).

\* Operations on the session in the model.
MaxBrowseOps == 4

\* The history of a window does not grow beyond this in the model.
MaxHistory == 3

Handles == {"w1", "w2"}
Pages == {"page1", "page2"}
NoWindow == "none"

\* The elements of the page of the tests: a link to the second page, a link
\* that opens a window, and the iframe.
LinkNext == "clickable-link"
LinkNewWindow == "new-window"
IFrame == "iframe"

\* The request an operation sends: the method, the segments of the path
\* after session/{id}, and the body.
Req(method, path, body) == [method |-> method, path |-> path, body |-> body]
NoBody == [json |-> FALSE, text |-> ""]

\* Element serialized under the key of the older protocol (a mutant).
SerElement_LegacyKey(e) == JObj(LegacyKey :> JStr(e.id))

\* Serialize for Element, and for Option<&Element>.
SerElement(e) == JObj(W3CKey :> JStr(e.id))
SerOptionElement(f) == IF f.ty = "None" THEN JNull ELSE SerElement(f.some)

\* Client::back sending the request of forward (a mutant).
BackReq_Forward == Req("POST", <<"forward">>, JsonBody(JObj(<<>>)))

\* The requests of the operations, as client.rs builds them.
VisitReq(u) == Req("POST", <<"url">>, JsonBody(JObj([url |-> JStr(u)])))
BackReq == Req("POST", <<"back">>, JsonBody(JObj(<<>>)))
ForwardReq == Req("POST", <<"forward">>, JsonBody(JObj(<<>>)))
RefreshReq == Req("POST", <<"refresh">>, JsonBody(JObj(<<>>)))
CurrentUrlReq == Req("GET", <<"url">>, NoBody)
WindowReq == Req("GET", <<"window">>, NoBody)

\* Client::close_window sending the request of window (a mutant).
CloseWindowReq_Get == Req("GET", <<"window">>, NoBody)

CloseWindowReq == Req("DELETE", <<"window">>, NoBody)
SwitchToWindowReq(w) == Req("POST", <<"window">>, JsonBody(JObj([handle |-> JStr(w)])))
WindowsReq == Req("GET", <<"window", "handles">>, NoBody)

\* Client::switch_to_frame that sends no frame (a mutant).
SwitchToFrameReq_Null(f) == Req("POST", <<"frame">>, JsonBody(JObj([id |-> JNull])))

SwitchToFrameReq(f) == Req("POST", <<"frame">>, JsonBody(JObj([id |-> SerOptionElement(f)])))
SwitchToParentFrameReq == Req("POST", <<"frame", "parent">>, JsonBody(JObj(<<>>)))
FindElementsReq(by) ==
    Req("POST", <<"elements">>, JsonBody(JObj([using |-> JStr("css selector"), value |-> JStr(by)])))
ClickReq(e) == Req("POST", <<"element", e.id, "click">>, JsonBody(JObj(<<>>)))

\* The browser.
CurrentPage(rem) == rem.hist[rem.current][rem.pos[rem.current]]

\* A navigation of the current window to u: the entries after the current
\* one go, u is added, and the top frame is current.
Navigate(rem, u) ==
    LET w == rem.current
        h == SubSeq(rem.hist[w], 1, rem.pos[w])
    IN  [rem EXCEPT !.hist[w] = Append(h, u), !.pos[w] = Len(h) + 1, !.frame = "top"]

\* The elements a selector matches in the current frame: #inner-content is
\* in the document of the iframe only.
FrameMatches(rem, by) ==
    IF by = "#inner-content" THEN (IF rem.frame = "inner" THEN <<"inner-content">> ELSE <<>>)
    ELSE IF by = "iframe" THEN (IF rem.frame = "top" THEN <<IFrame>> ELSE <<>>)
    ELSE <<>>

Without(s, x) == SelectSeq(s, LAMBDA y : y # x)

\* What the driver does with a request and what it answers.
DriverHandle(rem, q) ==
    IF rem.current = NoWindow /\ ~(q.path \in {<<"window">>, <<"window", "handles">>} /\ q.method # "DELETE")
    THEN [rem |-> rem, r |-> Failure("no such window", "no such window")]
    ELSE IF q.method = "POST" /\ q.path = <<"url">>
    THEN [rem |-> Navigate(rem, q.body.j.o.url.s), r |-> Success(JNull)]
    ELSE IF q.method = "GET" /\ q.path = <<"url">>
    THEN [rem |-> rem, r |-> Success(JStr(CurrentPage(rem)))]
    ELSE IF q.method = "POST" /\ q.path = <<"back">>
    THEN [rem |-> [rem EXCEPT !.pos[rem.current] = IF @ > 1 THEN @ - 1 ELSE @, !.frame = "top"],
          r |-> Success(JNull)]
    ELSE IF q.method = "POST" /\ q.path = <<"forward">>
    THEN [rem |-> [rem EXCEPT !.pos[rem.current] =
                        IF @ < Len(rem.hist[rem.current]) THEN @ + 1 ELSE @, !.frame = "top"],
          r |-> Success(JNull)]
    ELSE IF q.method = "POST" /\ q.path = <<"refresh">>
    THEN [rem |-> [rem EXCEPT !.frame = "top"], r |-> Success(JNull)]
    ELSE IF q.method = "GET" /\ q.path = <<"window">>
    THEN [rem |-> rem, r |-> IF rem.current = NoWindow
                             THEN Failure("no such window", "no such window")
                             ELSE Success(JStr(rem.current))]
    ELSE IF q.method = "DELETE" /\ q.path = <<"window">>
    THEN LET left == Without(rem.open, rem.current)
         IN  [rem |-> [rem EXCEPT !.open = left, !.current = NoWindow, !.frame = "top"],
              r |-> Success(JArr([i \in 1..Len(left) |-> JStr(left[i])]))]
    ELSE IF q.method = "POST" /\ q.path = <<"window">>
    THEN IF \E i \in 1..Len(rem.open) : rem.open[i] = q.body.j.o.handle.s
         THEN [rem |-> [rem EXCEPT !.current = q.body.j.o.handle.s, !.frame = "top"],
               r |-> Success(JNull)]
         ELSE [rem |-> rem, r |-> Failure("no such window", "no such window")]
    ELSE IF q.method = "GET" /\ q.path = <<"window", "handles">>
    THEN [rem |-> rem, r |-> Success(JArr([i \in 1..Len(rem.open) |-> JStr(rem.open[i])]))]
    ELSE IF q.method = "POST" /\ q.path = <<"frame">>
    THEN IF q.body.j.o.id.t = "null"
         THEN [rem |-> [rem EXCEPT !.frame = "top"], r |-> Success(JNull)]
         ELSE IF rem.frame = "top" /\ DeElement(q.body.j.o.id).ok
                 /\ DeElement(q.body.j.o.id).v.id = IFrame
              THEN [rem |-> [rem EXCEPT !.frame = "inner"], r |-> Success(JNull)]
              ELSE [rem |-> rem, r |-> Failure("no such frame", "no such frame")]
    ELSE IF q.method = "POST" /\ q.path = <<"frame", "parent">>
    THEN [rem |-> [rem EXCEPT !.frame = "top"], r |-> Success(JNull)]
    ELSE IF q.method = "POST" /\ q.path = <<"elements">>
    THEN LET m == FrameMatches(rem, q.body.j.o.value.s)
         IN  [rem |-> rem, r |-> Success(JArr([i \in 1..Len(m) |-> ElementRef(m[i])]))]
    ELSE IF q.method = "POST" /\ q.path = <<"element", LinkNext, "click">>
    THEN [rem |-> Navigate(rem, "page2"), r |-> Success(JNull)]
    ELSE IF q.method = "POST" /\ q.path = <<"element", LinkNewWindow, "click">>
    THEN [rem |-> IF \E i \in 1..Len(rem.open) : rem.open[i] = "w2" THEN rem
                  ELSE [rem EXCEPT !.open = Append(@, "w2")],
          r |-> Success(JNull)]
    ELSE [rem |-> rem, r |-> Failure("unknown command", "unknown command")]

\* What current_url would say, and where in its history the current window
\* is, as the driver has it.
Where(rem) ==
    IF rem.current = NoWindow THEN [window |-> NoWindow, open |-> rem.open]
    ELSE [window |-> rem.current, page |-> CurrentPage(rem), pos |-> rem.pos[rem.current],
          frame |-> rem.frame, open |-> rem.open]

\* The operation before this one, what it was given and where it started.
BrowsePrev ==
    IF out.op = "none" THEN [op |-> "none"]
    ELSE [op |-> out.op, arg |-> out.arg, ok |-> out.r.ok, was |-> out.was]

\* A session of one window showing the first page.
BrowseInit ==
    /\ owner = "separate"
    /\ alive = {"client"}
    /\ session_id = "s1"
    /\ child = "running"
    /\ kill_reaped_errs = FALSE
    /\ log = <<NewSessionEv>>
    /\ ret = [call |-> "none", res |-> "none"]
    /\ calls = 0
    /\ kind = "none"
    /\ spc = "returned"
    /\ elapsed = 0
    /\ pause_time = 0
    /\ last = "none"
    /\ ever_healthy = FALSE
    /\ health = [state |-> "none"]
    /\ PortIdle
    /\ UrlIdle
    /\ remote = [state |-> "up", kind |-> "browser", open |-> <<"w1">>, current |-> "w1",
                 hist |-> [w \in Handles |-> IF w = "w1" THEN <<"page1">> ELSE <<"#new-window">>],
                 pos |-> [w \in Handles |-> 1], frame |-> "top"]
    /\ http = [state |-> "none"]
    /\ out = [op |-> "none"]

\* A Session operation against the browser: the request goes to the
\* driver, which acts on it and answers, and execute reads the answer as R.
Browse(op, arg, R, q) ==
    /\ "client" \in alive
    /\ calls < MaxBrowseOps
    /\ calls' = calls + 1
    /\ LET d == DriverHandle(remote, q)
       IN  /\ remote' = d.rem
           /\ http' = [state |-> "received", r |-> d.r, q |-> q]
           /\ out' = [op |-> op, arg |-> arg, R |-> R, r |-> SessionExecute(session_id, R, d.r),
                      was |-> Where(remote), prev |-> BrowsePrev]
    /\ log' = log \o <<Request(session_id)>>
    /\ UNCHANGED <<alive, session_id>>
    /\ ExecFrame

CanGrow == remote.current # NoWindow => Len(remote.hist[remote.current]) < MaxHistory

Visit ==
    /\ CanGrow
    /\ \E u \in Pages : Browse("visit", [url |-> u], "Unit", VisitReq(u))

Click ==
    /\ CanGrow
    /\ \E id \in {LinkNext, LinkNewWindow} :
          Browse("click", [id |-> id], "Unit", ClickReq([ty |-> "Element", id |-> id]))

Back ==
    /\ remote.kind = "browser"
    /\ Browse("back", NoArg, "Unit", BackReq)

Forward ==
    /\ remote.kind = "browser"
    /\ Browse("forward", NoArg, "Unit", ForwardReq)

Refresh ==
    /\ remote.kind = "browser"
    /\ Browse("refresh", NoArg, "Unit", RefreshReq)

CurrentUrl ==
    /\ remote.kind = "browser"
    /\ Browse("current_url", NoArg, "String", CurrentUrlReq)

GetWindow ==
    /\ remote.kind = "browser"
    /\ Browse("window", NoArg, "Window", WindowReq)

CloseWindow ==
    /\ remote.kind = "browser"
    /\ Browse("close_window", NoArg, "VecWindow", CloseWindowReq)

SwitchToWindow ==
    /\ remote.kind = "browser"
    /\ \E w \in Handles : Browse("switch_to_window", [window |-> w], "Unit", SwitchToWindowReq(w))

Windows ==
    /\ remote.kind = "browser"
    /\ Browse("windows", NoArg, "VecWindow", WindowsReq)

SwitchToFrame ==
    /\ remote.kind = "browser"
    /\ \E f \in {[ty |-> "None"], [ty |-> "Some", some |-> [ty |-> "Element", id |-> IFrame]]} :
          Browse("switch_to_frame", [frame |-> f], "Unit", SwitchToFrameReq(f))

SwitchToParentFrame ==
    /\ remote.kind = "browser"
    /\ Browse("switch_to_parent_frame", NoArg, "Unit", SwitchToParentFrameReq)

FindInFrame ==
    /\ remote.kind = "browser"
    /\ \E by \in {"#inner-content", "iframe"} :
          Browse("find_elements", [by |-> by], "VecElement", FindElementsReq(by))

BrowseNext ==
    \/ Visit
    \/ Click
    \/ Back
    \/ Forward
    \/ Refresh
    \/ CurrentUrl
    \/ GetWindow
    \/ CloseWindow
    \/ SwitchToWindow
    \/ Windows
    \/ SwitchToFrame
    \/ SwitchToParentFrame
    \/ FindInFrame

BrowseSpec == BrowseInit /\ [][BrowseNext]_vars
\* A Vec of what the driver listed.
WindowsOf(hs) == Ok([ty |-> "Vec", items |-> [i \in 1..Len(hs) |-> [ty |-> "Window", w |-> hs[i]]]])
ElementsOf(ids) == Ok([ty |-> "Vec", items |-> [i \in 1..Len(ids) |-> [ty |-> "Element", id |-> ids[i]]]])

\* The operation just made moved the window from one page on to another.
NavigatedOn(o) == o.op \in {"visit", "click"} /\ o.ok /\ o.was.window # NoWindow

\* C23: after navigating on from a page to a second page P, back leaves the
\* browser on a page other than P and forward after that back leaves it on
\* P again; refresh leaves the page as it was; current_url reports the
\* page the browser is on.
C23_BackForwardRefresh ==
    /\ (out.op = "current_url" /\ out.was.window # NoWindow)
          => out.r = Ok([ty |-> "String", s |-> CurrentPage(remote)])
    /\ (out.op = "back" /\ out.was.window # NoWindow /\ NavigatedOn(out.prev)
           /\ out.prev.was.page # out.was.page)
          => /\ out.r.ok
             /\ CurrentPage(remote) # out.was.page
             /\ CurrentPage(remote) = out.prev.was.page
    /\ (out.op = "forward" /\ out.prev.op = "back" /\ out.prev.ok /\ out.prev.was.pos >= 2)
          => /\ out.r.ok
             /\ CurrentPage(remote) = out.prev.was.page
    /\ (out.op = "refresh" /\ out.was.window # NoWindow)
          => /\ out.r.ok
             /\ CurrentPage(remote) = out.was.page

C23_Witness ==
    /\ out.op = "forward"
    /\ out.r.ok
    /\ out.prev.op = "back"
    /\ out.prev.ok
    /\ out.prev.was.pos >= 2
    /\ out.was.page # out.prev.was.page
    /\ CurrentPage(remote) = "page2"

\* C24: close_window closes the current window and returns the handles
\* windows() listed before the call without the current one; with two
\* windows open and the second current it returns the first alone.
C24_CloseWindowReturnsRest ==
    /\ (out.op = "windows") => out.r = WindowsOf(out.was.open)
    /\ (out.op = "close_window" /\ out.was.window # NoWindow)
          => /\ out.r = WindowsOf(Without(out.was.open, out.was.window))
             /\ remote.open = Without(out.was.open, out.was.window)
             /\ out.was.open = <<"w1", "w2">> /\ out.was.window = "w2"
                   => out.r = WindowsOf(<<"w1">>)

C24_Witness ==
    /\ out.op = "close_window"
    /\ out.was.open = <<"w1", "w2">>
    /\ out.was.window = "w2"
    /\ out.r = WindowsOf(<<"w1">>)

\* C25: a lookup that follows switch_to_frame(Some(f)) finds what is in f
\* and not what is in the top document; one that follows
\* switch_to_frame(None), or switch_to_parent_frame from the iframe of the
\* top document, finds what is in the top document.
C25_LookupsScopedToFrame ==
    (out.op = "find_elements" /\ out.prev.op # "none" /\ out.prev.ok)
       => /\ (out.prev.op = "switch_to_frame" /\ out.prev.arg.frame.ty = "Some")
                => out.r = ElementsOf(IF out.arg.by = "#inner-content"
                                      THEN <<"inner-content">> ELSE <<>>)
          /\ ((out.prev.op = "switch_to_frame" /\ out.prev.arg.frame.ty = "None")
                 \/ (out.prev.op = "switch_to_parent_frame" /\ out.prev.was.frame = "inner"))
                => out.r = ElementsOf(IF out.arg.by = "iframe" THEN <<IFrame>> ELSE <<>>)

C25_Witness ==
    /\ out.op = "find_elements"
    /\ out.arg.by = "#inner-content"
    /\ out.prev.op = "switch_to_frame"
    /\ out.prev.ok
    /\ out.prev.arg.frame.ty = "Some"
    /\ out.r = ElementsOf(<<"inner-content">>)

----------------------------------------------------------------------------
\* C26: in no execution of a DriverHolder is a delete-session request sent
\* after the driver process has been killed.
C26_NoDeleteAfterKill ==
    owner = "holder" =>
        \A i, j \in DOMAIN log : (i < j /\ log[i] = KillEv) => log[j][1] # "DELETE"

\* C27: the session id of a Client changes only from an id to none, and
\* only in a close whose delete-session request succeeded: no step gives it
\* another id, and once there is none no step sets one.
C27_SessionIdOnlyClearedByClose ==
    [][session_id' # session_id =>
          /\ session_id \in SessionIds
          /\ session_id' = NoSession
          /\ \E i \in (Len(log) + 1)..(Len(log') - 2) :
                /\ log'[i] = Call("Client::close")
                /\ log'[i + 1] = Delete(session_id)
                /\ log'[i + 2] = Ret("Client::close", "Ok")]_vars

C27_Witness ==
    /\ session_id = NoSession
    /\ "client" \in alive
    /\ ret.call \in OpNames
    /\ Has(Ret("Client::close", "Ok"))
    /\ Count("DELETE") = 1

----------------------------------------------------------------------------
\* C28: is_healthy answers true exactly when the status request was
\* answered with a success status, whatever the body; a request that could
\* not be sent or was answered with another status counts as not healthy
\* and does not make start return an error.
C28_HealthyIffSuccessStatus ==
    (last = "GET" /\ health.state = "answered") =>
        /\ health.healthy = (health.a.sent /\ health.a.status \in 200..299)
        /\ ret.res \in {"pending", "Ok"}
        /\ (kind = "gecko") => (health.healthy = (ret.res = "Ok"))
        /\ (kind = "chrome" /\ ~health.healthy /\ ret.res = "pending") => spc = "sleep"

C28_Witness ==
    /\ last = "GET"
    /\ kind = "gecko"
    /\ health.state = "answered"
    /\ health.a.sent
    /\ health.a.status = 204
    /\ health.a.body = "not ready"
    /\ health.healthy
    /\ ret.res = "Ok"
    /\ pause_time > FirstPauseMs

----------------------------------------------------------------------------
\* The requests among the events a step added to the log.
RequestsSent ==
    Cardinality({i \in (Len(log) + 1)..Len(log') : log'[i][1] \in {"request", "DELETE"}})

\* C29: a call of a Session operation, close among them, sends at most one
\* request, whether it is answered with a success, with a protocol error or
\* not at all; an operation other than close that has a session sends
\* exactly one.
C29_AtMostOneRequestPerCall ==
    [][(calls' = calls + 1 /\ ret'.call \in OpNames \cup {"Client::close"}) =>
          /\ RequestsSent <= 1
          /\ (ret'.call \in OpNames /\ session_id # NoSession) => RequestsSent = 1]_vars

C29_Witness ==
    /\ ret.call \in OpNames
    /\ ret.res = "WdError"
    /\ Count("request") = 1
    /\ calls = 1

----------------------------------------------------------------------------
\* A step of one of the two polling loops that sleeps.
SleepStep == spc \in {"sleep", "g_sleep"} /\ spc' # spc

\* C30: the first pause of the polling loop is 1 ms and every pause is
\* double the one before it, so the k-th is 2^(k-1) ms, as far as the model
\* lets the pause grow; the loop sleeps for the pause it has, no other
\* step changes the pause, and between two pauses there is a health
\* request.
C30_PauseDoubles ==
    /\ (kind \in {"chrome", "gecko"} /\ last = "spawn") => pause_time = FirstPauseMs
    /\ [][/\ SleepStep =>
               /\ last \in {"GET", "try_wait"}
               /\ health.state = "answered" /\ ~health.healthy
               /\ elapsed' = Clock(elapsed + pause_time)
               /\ (2 * pause_time <= MaxPauseMs) => pause_time' = 2 * pause_time
          /\ (SleepStep /\ kind = "chrome") => last = "GET"
          /\ (last' = "try_wait" /\ last' # last /\ kind = "gecko") => last = "GET"
          /\ (kind \in {"chrome", "gecko"} /\ ~SleepStep) => pause_time' = pause_time]_vars

C30_Witness ==
    /\ last = "sleep"
    /\ pause_time = 8
    /\ kind = "gecko"
    /\ elapsed = 7

----------------------------------------------------------------------------
\* C31: a bind that finds the address in use is followed by a try of the
\* next candidate port and is not the result of the call; a bind that
\* fails in another way ends the call with that error, and a bind that
\* succeeds ends it with the port.
C31_AddrInUseRetriedOthersReturned ==
    [][\A t \in Threads :
          /\ (ppc[t] = "bind" /\ ppc'[t] # "bind") =>
                /\ (port_env = "all_busy") => (ppc'[t] = "retry" /\ pres'[t] = pres[t])
                /\ (port_env = "mixed" /\ busy_left = 0) =>
                      /\ ppc'[t] = "done"
                      /\ pres'[t] \in {[kind |-> "Ok", port |-> poff[t]],
                                       [kind |-> "Err", why |-> "bind"]}
                /\ (ppc'[t] = "retry") => pres'[t] = [kind |-> "none"]
                /\ (ppc'[t] = "done") =>
                      pres'[t] \in {[kind |-> "Ok", port |-> poff[t]],
                                    [kind |-> "Err", why |-> "bind"]}
          /\ (ppc[t] = "retry" /\ ppc'[t] = "bind") => poff'[t] > poff[t]]_vars

C31_Witness ==
    \E t, u \in Threads :
        /\ pres[t] = [kind |-> "Err", why |-> "bind"]
        /\ pprobes[t] = 1
        /\ pres[u].kind = "Ok"
        /\ pprobes[u] = 2

----------------------------------------------------------------------------
\* C32: a response that is not a success, has a content type beginning
\* with application/json and a body that does not read as a value holding
\* error and message makes the call fail with the error of the decoder:
\* the result is an error, and not a Protocol Error.
C32_MalformedJsonErrorIsDecoderError ==
    (/\ Answered
     /\ out.op # "new"
     /\ session_id # NoSession
     /\ ~http.r.success
     /\ http.r.ctype \in JsonTypes
     /\ ~DeHasValue("WdError", http.r.body).ok)
    => /\ ~out.r.ok
       /\ ~IsProtocolError(out.r)
       /\ out.r = JsonErr

C32_Witness ==
    /\ Answered
    /\ out.op = "any"
    /\ ~http.r.success
    /\ http.r.ctype = JsonPlain
    /\ http.r.body = JsonBody(Envelope(JObj([message |-> JStr("msg")])))
    /\ out.r = JsonErr

----------------------------------------------------------------------------
\* C33: the frame switch_to_frame sends is the element under the one key
\* element-6066-11e4-a52e-4f735466cecf, holding the id the handle has, and
\* switch_to_frame(None) sends null.
C33_ElementSentUnderW3CKey ==
    (out.op = "switch_to_frame" /\ http.state = "received") =>
        /\ http.q.method = "POST"
        /\ http.q.path = <<"frame">>
        /\ http.q.body.json
        /\ DOMAIN http.q.body.j.o = {"id"}
        /\ (out.arg.frame.ty = "None") => http.q.body.j.o.id = JNull
        /\ (out.arg.frame.ty = "Some") =>
              /\ http.q.body.j.o.id.t = "obj"
              /\ DOMAIN http.q.body.j.o.id.o = {"element-6066-11e4-a52e-4f735466cecf"}
              /\ http.q.body.j.o.id.o["element-6066-11e4-a52e-4f735466cecf"]
                    = JStr(out.arg.frame.some.id)

C33_Witness ==
    /\ out.op = "switch_to_frame"
    /\ out.arg.frame.ty = "Some"
    /\ out.r.ok
    /\ remote.frame = "inner"
    /\ http.q.body.j.o.id = ElementRef(IFrame)
    /\ out.prev.op = "switch_to_frame"
    /\ out.prev.arg.frame.ty = "None"

----------------------------------------------------------------------------
\* client.rs: screenshot and element_screenshot. The driver sends the image
\* as base64 text; a text is the sequence of its symbols, a symbol of the
\* base64 alphabet being the six bits it stands for.

\* The longest image in the model, in bytes.
MaxBytes == 3

\* Screenshots taken in the model.
MaxShots == 2

ByteValues == {0, 77, 255}
ByteSeqs == UNION {[1..n -> ByteValues] : n \in 0..MaxBytes}

\* The padding symbol =, and a symbol that is not in the alphabet.
PadSym == 64
BadSym == 65

\* base64 of a sequence of bytes, in the standard alphabet with padding:
\* three bytes make four symbols, and the last group is padded.
Base64Encode(b) ==
    LET n == Len(b)
        Byte(i) == IF i <= n THEN b[i] ELSE 0
    IN  [k \in 1..(4 * ((n + 2) \div 3)) |->
            LET g == (k - 1) \div 4
                j == (k - 1) % 4
                b1 == Byte(3 * g + 1)
                b2 == Byte(3 * g + 2)
                b3 == Byte(3 * g + 3)
            IN  CASE j = 0 -> b1 \div 4
                  [] j = 1 -> (b1 % 4) * 16 + (b2 \div 16)
                  [] j = 2 -> IF 3 * g + 2 > n THEN PadSym ELSE (b2 % 16) * 4 + (b3 \div 64)
                  [] OTHER -> IF 3 * g + 3 > n THEN PadSym ELSE b3 % 64]

\* base64::decode: the padding at the end is taken off, every other symbol
\* has to be of the alphabet, the symbols left cannot be one more than a
\* multiple of four, and the bits of the last symbol that belong to no
\* byte have to be zero.
Base64Decode(s) ==
    LET n == Len(s)
        pads == IF n >= 1 /\ s[n] = PadSym
                THEN (IF n >= 2 /\ s[n - 1] = PadSym THEN 2 ELSE 1)
                ELSE 0
        L == n - pads
        Sym(i) == IF i <= L THEN s[i] ELSE 0
        nbytes == (L \div 4) * 3 + (CASE L % 4 = 2 -> 1 [] L % 4 = 3 -> 2 [] OTHER -> 0)
        valid == /\ \A i \in 1..L : s[i] \in 0..63
                 /\ L % 4 # 1
                 /\ pads > 0 => (L + pads) % 4 = 0
                 /\ L % 4 = 2 => s[L] % 16 = 0
                 /\ L % 4 = 3 => s[L] % 4 = 0
    IN  IF ~valid THEN [ok |-> FALSE]
        ELSE [ok |-> TRUE,
              bytes |-> [k \in 1..nbytes |->
                           LET g == (k - 1) \div 3
                               j == (k - 1) % 3
                               s1 == Sym(4 * g + 1)
                               s2 == Sym(4 * g + 2)
                               s3 == Sym(4 * g + 3)
                               s4 == Sym(4 * g + 4)
                           IN  CASE j = 0 -> s1 * 4 + (s2 \div 16)
                                 [] j = 1 -> (s2 % 16) * 16 + (s3 \div 4)
                                 [] OTHER -> (s3 % 4) * 64 + s4]]

\* A screenshot that hands out the text as it came (a mutant).
ScreenshotResult_Raw(e) ==
    IF ~e.ok THEN e ELSE Ok([ty |-> "Bytes", b |-> e.v.s])

\* let b64_content: String = execute(req)?; Ok(base64::decode(&b64_content)?).
ScreenshotResult(e) ==
    IF ~e.ok THEN e
    ELSE LET d == Base64Decode(e.v.s)
         IN  IF d.ok THEN Ok([ty |-> "Bytes", b |-> d.bytes])
             ELSE Err([kind |-> "Base64"])

ScreenshotReq == Req("GET", <<"screenshot">>, NoBody)
ElementScreenshotReq(e) == Req("GET", <<"element", e.id, "screenshot">>, NoBody)

\* The texts a driver may send: the base64 of an image, that text with one
\* symbol more, and that text with a symbol that is not of the alphabet.
ShotTexts ==
    {Base64Encode(b) : b \in ByteSeqs}
    \cup {Append(Base64Encode(b), 16) : b \in ByteSeqs}
    \cup {<<BadSym>> \o Base64Encode(b) : b \in ByteSeqs}

\* The driver answering a request for a screenshot.
DriverScreenshot(rem, q) ==
    IF q.method = "GET" /\ q.path \in {<<"screenshot">>, <<"element", "e1", "screenshot">>}
    THEN IF rem.fails THEN Failure("unable to capture screen", "msg")
         ELSE Success(JStr(rem.text))
    ELSE Failure("unknown command", "unknown command")

ShotInit ==
    /\ owner = "separate"
    /\ alive = {"client"}
    /\ session_id = "s1"
    /\ child = "running"
    /\ kill_reaped_errs = FALSE
    /\ log = <<NewSessionEv>>
    /\ ret = [call |-> "none", res |-> "none"]
    /\ calls = 0
    /\ kind = "none"
    /\ spc = "returned"
    /\ elapsed = 0
    /\ pause_time = 0
    /\ last = "none"
    /\ ever_healthy = FALSE
    /\ health = [state |-> "none"]
    /\ PortIdle
    /\ UrlIdle
    /\ \E t \in ShotTexts, f \in BOOLEAN :
          remote = [state |-> "up", kind |-> "shots", text |-> t, fails |-> f]
    /\ http = [state |-> "none"]
    /\ out = [op |-> "none"]

\* The common part of the two operations.
Shot(op, q) ==
    /\ "client" \in alive
    /\ calls < MaxShots
    /\ calls' = calls + 1
    /\ LET r == DriverScreenshot(remote, q)
       IN  /\ http' = [state |-> "received", r |-> r, q |-> q]
           /\ out' = [op |-> op, r |-> ScreenshotResult(SessionExecute(session_id, "String", r))]
    /\ log' = log \o <<Request(session_id)>>
    /\ UNCHANGED <<alive, session_id, remote>>
    /\ ExecFrame

Screenshot ==
    /\ remote.kind = "shots"
    /\ Shot("screenshot", ScreenshotReq)

ElementScreenshot ==
    /\ remote.kind = "shots"
    /\ Shot("element_screenshot", ElementScreenshotReq([ty |-> "Element", id |-> "e1"]))

ShotNext == Screenshot \/ ElementScreenshot

ShotSpec == ShotInit /\ [][ShotNext]_vars

\* C34: when the driver answers with the base64 of a sequence of bytes the
\* call returns those bytes; when it answers with a text that is not
\* base64 the call fails, and not with a Protocol Error.
C34_ScreenshotDecodesBase64 ==
    (out.op \in {"screenshot", "element_screenshot"} /\ ~remote.fails) =>
        /\ \A b \in ByteSeqs :
              remote.text = Base64Encode(b) => out.r = Ok([ty |-> "Bytes", b |-> b])
        /\ (remote.text \notin {Base64Encode(b) : b \in ByteSeqs})
              => (~out.r.ok /\ ~IsProtocolError(out.r))

C34_Witness ==
    /\ out.op = "element_screenshot"
    /\ remote.text = Base64Encode(<<255, 77>>)
    /\ remote.text = <<63, 52, 52, PadSym>>
    /\ out.r = Ok([ty |-> "Bytes", b |-> <<255, 77>>])

----------------------------------------------------------------------------
\* wait_until has returned Ok to driver_config: its value is that of the
\* last call of check, which is the answer of the last health request.
WaitUntilReturnedOk == kind = "chrome" /\ spc = "returned" /\ ret.res = "Ok"

\* C35: wait_until returns Ok(true) whenever a call of check returned
\* Ok(true), and Ok(false) only when the deadline has passed and no call of
\* check returned true.
C35_WaitUntilTrueIffCheckWasTrue ==
    WaitUntilReturnedOk =>
        /\ ever_healthy => health.healthy
        /\ ~health.healthy => (elapsed >= START_TIMEOUT_MS /\ ~ever_healthy)

----------------------------------------------------------------------------
\* C36: for each session id at most one delete-session request is sent,
\* by close and by close on drop together.
C36_AtMostOneDeletePerSession ==
    \A sid \in SessionIds :
        Cardinality({i \in DOMAIN log : log[i] = Delete(sid)}) <= 1

----------------------------------------------------------------------------
\* C37: once the counter has passed the last candidate port, every later
\* call fails with the error that the ports are used up and no call is
\* given a port again.
C37_NoPortAfterExhaustion ==
    [][\A t \in Threads :
          (PORT >= U16Modulus - StartPort /\ pprobes'[t] = pprobes[t] + 1)
              => (ppc'[t] = "done" /\ pres'[t] = [kind |-> "Err", why |-> "exhausted"])]_vars

----------------------------------------------------------------------------
\* C38: when Driver::start, chrome::start or gecko::start has returned an
\* error after the process was spawned, the Driver has been dropped and
\* the process does not run any more; when the session could not be opened
\* the process was sent the kill.
C38_NoOrphanAfterFailedStart ==
    (/\ kind \in {"chrome", "gecko"}
     /\ ret.call \in {"Driver::start", "start"}
     /\ ret.res \notin {"pending", "Ok"})
    => /\ spc = "returned"
       /\ alive = {}
       /\ child # "running"
       /\ (ret.res = "SessionFailed") => Has(KillEv)

C38_Witness ==
    /\ kind = "chrome"
    /\ ret = [call |-> "start", res |-> "SessionFailed"]
    /\ child = "reaped"
    /\ Has(KillEv)
    /\ Has(WaitEv)
    /\ ever_healthy

====
